---------------------------- MODULE Spec2Model ----------------------------
(***************************************************************************)
(* A model of the polymarket-hft native core (rust_core/src).              *)
(*                                                                         *)
(*   - the price-level order book and its manager   (orderbook 2.rs)       *)
(*   - the f64 order book manager                   (orderbook.rs)         *)
(*   - the correlation scanner                      (graph 2.rs)           *)
(*   - the f64 correlation DAG                      (graph.rs)             *)
(*   - the NegRisk arbitrage miner                  (negrisk 2.rs)         *)
(*   - the f64 NegRisk scanner                      (negrisk.rs)           *)
(*   - the wide-spread market scanner               (vulture 2.rs)         *)
(*   - the EIP-712 order signer                     (signer 2.rs)          *)
(*   - the fixed-point decimal arithmetic the book and the scanner use     *)
(*     (rust_decimal::Decimal, as the call sites use it)                   *)
(*                                                                         *)
(* Specifications:                                                         *)
(*   Spec       one token, sequential calls on the manager, rich inputs    *)
(*   SpecMgr    two tokens, sequential calls on the manager, thin inputs   *)
(*   SpecFloat  two tokens, sequential calls on the f64 manager            *)
(*              (orderbook.rs)                                             *)
(*   SpecGraph  sequential calls on one correlation scanner                *)
(*   SpecSiblings  sequential calls on one correlation scanner holding a   *)
(*              market and its exclusive outcomes                          *)
(*   SpecMixed  sequential calls on one correlation scanner holding edge   *)
(*              violations and exclusivity violations together             *)
(*   SpecDag    sequential calls on one CorrelationDAG (graph.rs)          *)
(*   SpecMiner  sequential calls on one NegRisk miner and its manager      *)
(*   SpecNegRisk  sequential calls on one f64 NegRisk scanner (negrisk.rs) *)
(*   SpecVulture  sequential calls on one Vulture (vulture 2.rs)           *)
(*   SpecSigner  sequential calls on one PolymarketSigner (signer 2.rs)    *)
(*   SpecNonce  two threads calling one PolymarketSigner, a step up to     *)
(*              each access to its atomic nonce                            *)
(*   SpecConc   one token, a feed thread and a scanning thread on the      *)
(*              manager, a step from each lock acquisition to the next     *)
(*   SpecRace   one token, two threads that both send deltas to the        *)
(*              manager                                                    *)
(*   SpecLive   one token, two threads that make every call of the         *)
(*              manager, with fair locks and threads that keep running     *)
(***************************************************************************)
EXTENDS Integers, Sequences, FiniteSets, TLC

\* ------------------------------------------------------------------------
\* Bounds of the model
\* ------------------------------------------------------------------------

\* Sequence numbers (u64 in the code) range over 0..MaxSeq.
MaxSeq == 2

\* A snapshot or a delta carries at most MaxLevels levels, both sides together.
MaxLevels == 2

\* In SpecMgr a snapshot or a delta carries at most MgrLevels levels.
MgrLevels == 1

\* Fractional digits kept by a division that does not terminate
\* (rust_decimal keeps as many as fit its 96-bit mantissa).
DivDigits == 4

\* ------------------------------------------------------------------------
\* rust_decimal::Decimal: a signed integer mantissa m and a scale s,
\* the value being m / 10^s.
\* ------------------------------------------------------------------------

Dec(m, s) == [m |-> m, s |-> s]

RECURSIVE Pow10(_)
Pow10(n) == IF n = 0 THEN 1 ELSE 10 * Pow10(n - 1)

Abs(x) == IF x < 0 THEN -x ELSE x

Max2(a, b) == IF a >= b THEN a ELSE b

\* Decimal::is_zero
IsZero(d) == d.m = 0

\* The mantissa of d rescaled to scale s >= d.s.
Rescaled(d, s) == d.m * Pow10(s - d.s)

\* Ord / PartialEq for Decimal compare values, not representations.
DecCmp(a, b) ==
    LET s == Max2(a.s, b.s)
        x == Rescaled(a, s)
        y == Rescaled(b, s)
    IN  IF x < y THEN -1 ELSE IF x > y THEN 1 ELSE 0

DecEq(a, b) == DecCmp(a, b) = 0
DecLt(a, b) == DecCmp(a, b) < 0
DecGt(a, b) == DecCmp(a, b) > 0

\* a + b and a - b: exact, at the larger of the two scales.
DecAdd(a, b) ==
    LET s == Max2(a.s, b.s) IN Dec(Rescaled(a, s) + Rescaled(b, s), s)

DecSub(a, b) ==
    LET s == Max2(a.s, b.s) IN Dec(Rescaled(a, s) - Rescaled(b, s), s)

\* a * b: the mantissas multiply and the scales add; a zero factor gives
\* Decimal::ZERO (scale 0).
DecMul(a, b) ==
    IF IsZero(a) \/ IsZero(b) THEN Dec(0, 0) ELSE Dec(a.m * b.m, a.s + b.s)

\* a / b for b # 0.  A zero dividend gives Decimal::ZERO.  Otherwise the
\* quotient is exact at the smallest scale k >= max(a.s - b.s, 0) at which it
\* has no remainder; a quotient that does not terminate is rounded at the
\* last digit kept.
DecDiv(a, b) ==
    IF IsZero(a) THEN Dec(0, 0)
    ELSE
      LET neg  == (a.m < 0) # (b.m < 0)
          n    == Max2(a.s - b.s, 0)
          top  == Max2(n, DivDigits)
          num(k) == Abs(a.m) * Pow10(b.s + k - a.s)
          den  == Abs(b.m)
          exact == {k \in n..top : num(k) % den = 0}
          sign(x) == IF neg THEN -x ELSE x
      IN  IF exact # {}
          THEN LET k == CHOOSE k \in exact : \A j \in exact : k <= j
               IN  Dec(sign(num(k) \div den), k)
          ELSE Dec(sign((2 * num(top) + den) \div (2 * den)), top)

\* Display for Decimal: an optional sign, the integer digits and, when the
\* scale is not 0, a point followed by exactly `scale` fractional digits.
RECURSIVE Digits(_, _)
Digits(x, n) == IF n = 0 THEN <<>> ELSE Append(Digits(x \div 10, n - 1), x % 10)

DecToString(d) ==
    [neg   |-> d.m < 0,
     whole |-> Abs(d.m) \div Pow10(d.s),
     point |-> d.s > 0,
     frac  |-> Digits(Abs(d.m) % Pow10(d.s), d.s)]

\* Option<T> and Result<T, E>: None / Err is the empty sequence, Some(x) /
\* Ok(x) the one-element sequence.
None == <<>>
Some(x) == <<x>>
Unwrap(o) == o[1]

\* str::parse::<u32>: digits only; a sign '-', a point or a value beyond
\* u32::MAX = 2 * 2147483647 + 1 is an error.
ParseU32(str) ==
    IF str.point \/ str.neg \/ str.whole \div 2 > 2147483647 THEN None
    ELSE Some(str.whole)

\* str::parse::<i32>: an optional sign and digits; a point or a value beyond
\* the i32 range is an error.
ParseI32(str) ==
    IF str.point \/ str.whole > 2147483647 THEN None
    ELSE IF str.neg THEN Some(-str.whole) ELSE Some(str.whole)

\* ------------------------------------------------------------------------
\* OrderBookSide: levels is a BTreeMap from price to size.  (The u32 order
\* count stored beside the size is read only by top_n; it is not part of
\* the state here.)
\* ------------------------------------------------------------------------

EmptyLevels == [p \in {} |-> Dec(0, 0)]

\* PriceLevel
Level(price, size) == [price |-> price, size |-> size]

\* The key of `levels` equal in value to `price`, if any.
KeysEq(levels, price) == {k \in DOMAIN levels : DecEq(k, price)}

\* BTreeMap::remove
MapRemove(levels, price) ==
    [k \in DOMAIN levels \ KeysEq(levels, price) |-> levels[k]]

\* BTreeMap::insert / entry().and_modify().or_insert(): an existing key keeps
\* its representation and takes the new value.
MapInsert(levels, price, size) ==
    IF KeysEq(levels, price) # {}
    THEN [k \in DOMAIN levels |-> IF DecEq(k, price) THEN size ELSE levels[k]]
    ELSE [k \in DOMAIN levels \cup {price} |->
             IF k = price THEN size ELSE levels[k]]

\* A mutant of SideApplyDelta: a zero size is stored like any other.
SideApplyDeltaKeepsZero(levels, price, size) == MapInsert(levels, price, size)

\* OrderBookSide::apply_delta
SideApplyDelta(levels, price, size) ==
    IF IsZero(size) THEN MapRemove(levels, price)
    ELSE MapInsert(levels, price, size)

\* OrderBookSide::best_price: the last key for bids, the first for asks.
BestPrice(levels, is_bid) ==
    IF DOMAIN levels = {} THEN None
    ELSE IF is_bid
         THEN Some(CHOOSE k \in DOMAIN levels : \A j \in DOMAIN levels : ~DecLt(k, j))
         ELSE Some(CHOOSE k \in DOMAIN levels : \A j \in DOMAIN levels : ~DecGt(k, j))

\* OrderBookSide::size_at_price
SizeAtPrice(levels, price) ==
    IF KeysEq(levels, price) = {} THEN Dec(0, 0)
    ELSE levels[CHOOSE k \in KeysEq(levels, price) : TRUE]

\* ------------------------------------------------------------------------
\* OrderBook
\* ------------------------------------------------------------------------

\* The for loops of from_snapshot: every level is inserted as it comes.
RECURSIVE InsertAll(_, _)
InsertAll(levels, list) ==
    IF list = <<>> THEN levels
    ELSE InsertAll(MapInsert(levels, Head(list).price, Head(list).size),
                   Tail(list))

\* A mutant of FromSnapshot: the sequence number starts at 0 as in new().
FromSnapshotSeqZero(snapshot) ==
    [bids            |-> InsertAll(EmptyLevels, snapshot.bids),
     asks            |-> InsertAll(EmptyLevels, snapshot.asks),
     last_update_ts  |-> snapshot.timestamp,
     sequence_number |-> 0]

\* OrderBook::from_snapshot
FromSnapshot(snapshot) ==
    [bids            |-> InsertAll(EmptyLevels, snapshot.bids),
     asks            |-> InsertAll(EmptyLevels, snapshot.asks),
     last_update_ts  |-> snapshot.timestamp,
     sequence_number |-> snapshot.sequence]

\* The for loops of apply_delta: every update goes through the side.
RECURSIVE ApplyUpdates(_, _)
ApplyUpdates(levels, updates) ==
    IF updates = <<>> THEN levels
    ELSE ApplyUpdates(
             SideApplyDelta(levels, Head(updates).price, Head(updates).size),
             Tail(updates))

\* The book an accepted delta leaves.
Applied(book, delta) ==
    [bids            |-> ApplyUpdates(book.bids, delta.bid_updates),
     asks            |-> ApplyUpdates(book.asks, delta.ask_updates),
     last_update_ts  |-> delta.timestamp,
     sequence_number |-> delta.sequence]

\* A mutant of BookApplyDelta: no gap detection.
BookApplyDeltaNoGapCheck(book, delta) ==
    IF delta.sequence <= book.sequence_number
    THEN [result |-> "StaleUpdate", book |-> book]
    ELSE [result |-> "Ok", book |-> Applied(book, delta)]

\* A mutant of BookApplyDelta: the stale test is < in place of <=.
BookApplyDeltaStaleStrict(book, delta) ==
    IF delta.sequence < book.sequence_number
    THEN [result |-> "StaleUpdate", book |-> book]
    ELSE IF delta.sequence > book.sequence_number + 1
    THEN [result |-> "SequenceGap", book |-> book]
    ELSE [result |-> "Ok", book |-> Applied(book, delta)]

\* A mutant of BookApplyDelta: last_update_ts is not written.
BookApplyDeltaKeepsTs(book, delta) ==
    IF delta.sequence <= book.sequence_number
    THEN [result |-> "StaleUpdate", book |-> book]
    ELSE IF delta.sequence > book.sequence_number + 1
    THEN [result |-> "SequenceGap", book |-> book]
    ELSE [result |-> "Ok",
          book   |-> [Applied(book, delta) EXCEPT
                          !.last_update_ts = book.last_update_ts]]

\* OrderBook::apply_delta run by one thread alone: the result and the book
\* it leaves.
BookApplyDelta(book, delta) ==
    IF delta.sequence <= book.sequence_number
    THEN [result |-> "StaleUpdate", book |-> book]
    ELSE IF delta.sequence > book.sequence_number + 1
    THEN [result |-> "SequenceGap", book |-> book]
    ELSE [result |-> "Ok", book |-> Applied(book, delta)]

\* The result of spread once both best prices are read.
Spread(best_bid, best_ask) ==
    IF best_bid = None \/ best_ask = None THEN None
    ELSE Some(DecSub(Unwrap(best_ask), Unwrap(best_bid)))

\* The result of mid_price once both best prices are read.
MidPrice(best_bid, best_ask) ==
    IF best_bid = None \/ best_ask = None THEN None
    ELSE Some(DecDiv(DecAdd(Unwrap(best_bid), Unwrap(best_ask)), Dec(2, 0)))

\* OrderBook::spread, run by one thread alone
BookSpread(book) ==
    Spread(BestPrice(book.bids, TRUE), BestPrice(book.asks, FALSE))

\* OrderBook::mid_price, run by one thread alone
BookMidPrice(book) ==
    MidPrice(BestPrice(book.bids, TRUE), BestPrice(book.asks, FALSE))

\* The comparison of spread_exceeds_bps once both best prices are read.
ExceedsBps(best_bid, best_ask, threshold_bps) ==
    IF best_bid = None \/ best_ask = None THEN FALSE
    ELSE LET bid == Unwrap(best_bid)
             ask == Unwrap(best_ask)
         IN  IF IsZero(bid) THEN FALSE
             ELSE LET spread_bps ==
                          DecToString(DecMul(DecDiv(DecSub(ask, bid), bid),
                                             Dec(10000, 0)))
                      bps == ParseU32(spread_bps)
                  IN  IF bps = None THEN FALSE
                      ELSE Unwrap(bps) > threshold_bps

\* OrderBook::spread_exceeds_bps
SpreadExceedsBps(book, threshold_bps) ==
    ExceedsBps(BestPrice(book.bids, TRUE), BestPrice(book.asks, FALSE),
               threshold_bps)

\* ------------------------------------------------------------------------
\* CorrelationScanner (graph 2.rs).  graph.nodes and graph.edges are the
\* node and edge lists of the DiGraph in insertion order; a NodeIndex or an
\* EdgeIndex is a position in them.  market_to_node is the position of the
\* node that carries the market id.
\* ------------------------------------------------------------------------

EmptyGraph == [nodes |-> <<>>, edges |-> <<>>]

\* market_to_node.get
NodeOf(graph, market_id) ==
    LET found == {i \in DOMAIN graph.nodes : graph.nodes[i].market_id = market_id}
    IN  IF found = {} THEN None ELSE Some(CHOOSE i \in found : TRUE)

\* What a call that can panic hands back.
Panicked == [panics |-> TRUE, value |-> None]
Returned(value) == [panics |-> FALSE, value |-> value]

\* The basis points of an edge violation: the decimal is printed and the text
\* parsed as an i32, 0 standing in for a text that does not parse.
EdgeBps(pp, cp) ==
    LET text == DecToString(DecMul(DecDiv(DecSub(cp, pp), pp), Dec(10000, 0)))
        bps == ParseI32(text)
    IN  IF bps = None THEN 0 ELSE Unwrap(bps)

\* CorrelationScanner::check_edge.  Decimal's division panics on a zero
\* divisor.
CheckEdge(graph, parent_idx, child_idx, edge_idx) ==
    LET parent == graph.nodes[parent_idx]
        child == graph.nodes[child_idx]
        edge == graph.edges[edge_idx]
    IN  IF parent.current_price = None \/ child.current_price = None
        THEN Returned(None)
        ELSE LET pp == Unwrap(parent.current_price)
                 cp == Unwrap(child.current_price)
             IN  IF edge.relation \in {"Implies", "Contains"} /\ DecGt(cp, pp)
                 THEN IF IsZero(pp) THEN Panicked
                      ELSE Returned(Some(
                          [violation_type |->
                               IF edge.relation = "Implies"
                               THEN "MonotonicityViolation" ELSE "SubsetViolation",
                           parent_market |-> parent.market_id,
                           child_market |-> child.market_id,
                           parent_price |-> pp,
                           child_price |-> cp,
                           expected_relation |-> <<"P(Child) <= P(Parent)">>,
                           arbitrage_edge_bps |-> EdgeBps(pp, cp)]))
                 ELSE Returned(None)

\* neighbors_directed(node, Outgoing): one target for each outgoing edge, the
\* edge added last first.
RECURSIVE ChildrenFrom(_, _, _)
ChildrenFrom(graph, node_idx, i) ==
    IF i = 0 THEN <<>>
    ELSE (IF graph.edges[i].parent = node_idx
          THEN <<graph.edges[i].child>> ELSE <<>>)
         \o ChildrenFrom(graph, node_idx, i - 1)

Children(graph, node_idx) == ChildrenFrom(graph, node_idx, Len(graph.edges))

\* The (market, price) pairs of the nodes that have a price.
RECURSIVE KnownPrices(_, _)
KnownPrices(graph, children) ==
    IF children = <<>> THEN <<>>
    ELSE LET n == graph.nodes[Head(children)]
         IN  (IF n.current_price = None THEN <<>>
              ELSE <<[market_id |-> n.market_id, price |-> Unwrap(n.current_price)]>>)
             \o KnownPrices(graph, Tail(children))

\* Iterator::sum over Decimal, from Decimal::ZERO.
RECURSIVE DecSum(_)
DecSum(prices) ==
    IF prices = <<>> THEN Dec(0, 0)
    ELSE DecAdd(DecSum(SubSeq(prices, 1, Len(prices) - 1)), prices[Len(prices)].price)

\* The place of the first and of the second entry once the list is sorted
\* by price, highest first, by a stable sort.
Highest(prices, among) ==
    CHOOSE i \in among : \A j \in among :
        /\ ~DecGt(prices[j].price, prices[i].price)
        /\ DecEq(prices[j].price, prices[i].price) => i <= j

\* CorrelationScanner::check_exclusivity
CheckExclusivity(graph, children) ==
    LET prices == KnownPrices(graph, children)
        sum == DecSum(prices)
    IN  IF Len(prices) < 2 THEN None
        ELSE IF DecGt(sum, Dec(1, 0))
        THEN LET text == DecToString(DecMul(DecSub(sum, Dec(1, 0)), Dec(10000, 0)))
                 bps == ParseI32(text)
                 first == Highest(prices, DOMAIN prices)
                 second == Highest(prices, DOMAIN prices \ {first})
             IN  Some([violation_type |-> "ExclusivityViolation",
                       parent_market |-> prices[first].market_id,
                       child_market |-> prices[second].market_id,
                       parent_price |-> prices[first].price,
                       child_price |-> prices[second].price,
                       expected_relation |-> <<"Sum <= 1.00, actual: ", DecToString(sum)>>,
                       arbitrage_edge_bps |-> IF bps = None THEN 0 ELSE Unwrap(bps)])
        ELSE None

\* The first loop of scan_violations, over the first n edges.
RECURSIVE ScanEdges(_, _, _)
ScanEdges(graph, min_edge_bps, n) ==
    IF n = 0 THEN Returned(<<>>)
    ELSE LET before == ScanEdges(graph, min_edge_bps, n - 1)
             v == CheckEdge(graph, graph.edges[n].parent, graph.edges[n].child, n)
         IN  IF before.panics \/ v.panics THEN Panicked
             ELSE IF v.value # None
                     /\ Unwrap(v.value).arbitrage_edge_bps >= min_edge_bps
             THEN Returned(Append(before.value, Unwrap(v.value)))
             ELSE before

\* The second loop of scan_violations, over the first n nodes.
RECURSIVE ScanNodes(_, _, _)
ScanNodes(graph, min_edge_bps, n) ==
    IF n = 0 THEN <<>>
    ELSE LET before == ScanNodes(graph, min_edge_bps, n - 1)
             children == Children(graph, n)
             v == IF Len(children) > 1 THEN CheckExclusivity(graph, children) ELSE None
         IN  IF v # None /\ Unwrap(v).arbitrage_edge_bps >= min_edge_bps
             THEN Append(before, Unwrap(v))
             ELSE before

\* A mutant of ScanViolations: the nodes are scanned before the edges.
ScanViolationsNodesFirst(graph, min_edge_bps) ==
    LET edges == ScanEdges(graph, min_edge_bps, Len(graph.edges))
    IN  IF edges.panics THEN Panicked
        ELSE Returned(ScanNodes(graph, min_edge_bps, Len(graph.nodes)) \o edges.value)

\* CorrelationScanner::scan_violations
ScanViolations(graph, min_edge_bps) ==
    LET edges == ScanEdges(graph, min_edge_bps, Len(graph.edges))
    IN  IF edges.panics THEN Panicked
        ELSE Returned(edges.value \o ScanNodes(graph, min_edge_bps, Len(graph.nodes)))

\* CorrelationScanner::generate_dutch_book
GenerateDutchBook(graph, v) ==
    LET pn == NodeOf(graph, v.parent_market)
        cn == NodeOf(graph, v.child_market)
    IN  IF pn = None \/ cn = None THEN None
        ELSE Some([long_market |-> v.parent_market,
                   long_token_id |-> graph.nodes[Unwrap(pn)].token_id,
                   short_market |-> v.child_market,
                   short_token_id |-> graph.nodes[Unwrap(cn)].token_id,
                   expected_profit_bps |-> v.arbitrage_edge_bps])

\* ------------------------------------------------------------------------
\* Inputs
\* ------------------------------------------------------------------------

Tokens == {"A", "B"}

\* Prices and sizes as the feed sends them ("0.20", "0.40", "0.60"; "0", "5").
BidPrices == {Dec(20, 2), Dec(40, 2)}
AskPrices == {Dec(60, 2)}
Sizes == {Dec(0, 0), Dec(5, 0)}

\* Timestamps as the feed sends them (u64).
Timestamps == {0, 1}

\* The thin inputs of SpecMgr: one price a side, snapshots stamped 0 and
\* deltas stamped 1.
MgrBidPrices == {Dec(20, 2)}
MgrAskPrices == {Dec(40, 2)}

LevelsOf(prices) == [price : prices, size : Sizes]

SeqsUpTo(S, n) == UNION {[1..k -> S] : k \in 0..n}

\* Pairs of level lists holding at most n levels together.
SidePairs(bid_prices, ask_prices, n) ==
    {pair \in SeqsUpTo(LevelsOf(bid_prices), n) \X SeqsUpTo(LevelsOf(ask_prices), n) :
        Len(pair[1]) + Len(pair[2]) <= n}

\* OrderBookSnapshot
SnapshotsOf(tokens, bid_prices, ask_prices, n, timestamps) ==
    {[token_id |-> t, bids |-> pair[1], asks |-> pair[2],
      timestamp |-> ts, sequence |-> q] :
        t \in tokens, pair \in SidePairs(bid_prices, ask_prices, n),
        ts \in timestamps, q \in 0..MaxSeq}

\* OrderBookDelta
DeltasOf(tokens, bid_prices, ask_prices, n, timestamps) ==
    {[token_id |-> t, bid_updates |-> pair[1], ask_updates |-> pair[2],
      timestamp |-> ts, sequence |-> q] :
        t \in tokens, pair \in SidePairs(bid_prices, ask_prices, n),
        ts \in timestamps, q \in 0..MaxSeq}

Snapshots == SnapshotsOf({"A"}, BidPrices, AskPrices, MaxLevels, Timestamps)
Deltas == DeltasOf({"A"}, BidPrices, AskPrices, MaxLevels, Timestamps)

MgrSnapshots == SnapshotsOf(Tokens, MgrBidPrices, MgrAskPrices, MgrLevels, {0})
MgrDeltas == DeltasOf(Tokens, MgrBidPrices, MgrAskPrices, MgrLevels, {1})

\* Thresholds handed to find_wide_spread_markets.
Thresholds == {0, 4000, 7000, 10000}

\* The markets of the scanner, the token each one trades, the prices set on
\* them ("0", "0.40", "0.70", "0.80"), the relations and the weights (f64; in
\* hundredths) of the edges between them.
Markets == {"P", "C"}
TokenOf == ("P" :> "P-yes") @@ ("C" :> "C-yes")
GraphPrices == {Dec(0, 0), Dec(40, 2), Dec(70, 2), Dec(80, 2)}
Relations == {"Implies", "Exclusive", "Contains"}
Weights == {50, 100}
MarketNodes ==
    {[market_id |-> m, token_id |-> TokenOf[m], current_price |-> p] :
        m \in Markets, p \in {None} \cup {Some(x) : x \in GraphPrices}}

\* The scanner is built with the binding's default min_edge_bps or with 0.
DefaultMinEdgeBps == 50
MinEdges == {0, DefaultMinEdgeBps}

\* ------------------------------------------------------------------------
\* State
\* ------------------------------------------------------------------------

VARIABLES
    books,         \* OrderBookManager.books: the map from token to book
    call,          \* the call that has just returned to the caller: its
                   \* arguments, its result and the books as they were before
                   \* it (history); Idle once the caller has taken the result
    graph,         \* CorrelationScanner.graph
    min_edge_bps,  \* CorrelationScanner.min_edge_bps
    heap,          \* the OrderBook objects behind Arc, in allocation order:
                   \* the four fields, the lock of each, and (history) the
                   \* pairs (best bid, best ask) the book has had: versions
                   \* between deltas, states at any time
    entries,       \* OrderBookManager.books when threads share it: the map
                   \* from token to the place in heap of its Arc<OrderBook>
    shard,         \* the lock of the DashMap shard that holds the token
    threads,       \* each thread's call: operation, argument, position,
                   \* the Arc it holds, the prices it has read, the result
    markets,       \* NegRiskMiner.markets: the map from condition id to market
    config,        \* NegRiskMiner.config
    signer,        \* the PolymarketSigner: its nonce and is_negrisk
    tasks,         \* each thread's call on the signer: operation, position,
                   \* the nonce it has taken, the result
    issued         \* (history) the calls made on the signer, the nonces
                   \* handed out and the returns, in the order they happened

vars == <<books, call, graph, min_edge_bps, heap, entries, shard, threads,
          markets, config, signer, tasks, issued>>
graphVars == <<graph, min_edge_bps>>
concVars == <<heap, entries, shard, threads>>
minerVars == <<markets, config>>
signerVars == <<signer, tasks, issued>>

\* DashMap::new
EmptyBooks == [t \in {} |-> {}]

\* The threads that share the manager: the feed handler, which loads
\* snapshots and applies deltas, and a scanner, which reads.
Writers == {"feed"}
Readers == {"scan"}
Threads == Writers \cup Readers

\* RwLock: the thread that holds it for writing, the threads that hold it
\* for reading.
FreeLock == [writer |-> None, readers |-> {}]
CanRead(lock) == lock.writer = None
CanWrite(lock) == lock.writer = None /\ lock.readers = {}

ThreadIdle ==
    [pc |-> "idle", op |-> "none", arg |-> <<>>, arc |-> 0,
     saw |-> <<>>, result |-> <<>>]

InitThreads ==
    /\ heap = <<>>
    /\ entries = EmptyBooks
    /\ shard = FreeLock
    /\ threads = [t \in Threads |-> ThreadIdle]

\* The threads that share the signer, and a thread with no call on it.
SignerThreads == {"maker", "canceller"}
TaskIdle == [pc |-> "idle", op |-> "none"]

\* PolymarketSigner::new
NewSigner(is_negrisk) == [nonce |-> 0, is_negrisk |-> is_negrisk]

InitSigner ==
    /\ signer = NewSigner(FALSE)
    /\ tasks = [t \in SignerThreads |-> TaskIdle]
    /\ issued = <<>>

\* NegRiskConfig::default
DefaultMinArbBps == 30
DefaultMaxPositionUsd == 1000
DefaultFeeBps == 0
DefaultConfig ==
    [min_arb_bps |-> DefaultMinArbBps,
     max_position_usd |-> Dec(DefaultMaxPositionUsd, 0),
     fee_bps |-> DefaultFeeBps]

\* HashMap::new
NoMarkets == [c \in {} |-> {}]

\* NegRiskMiner::new with the default configuration
InitMiner ==
    /\ markets = NoMarkets
    /\ config = DefaultConfig

Idle == [op |-> "idle"]

\* A mutant of BooksInsert: the map is left with the one book.
BooksInsertAlone(map, token_id, book) == [t \in {token_id} |-> book]

\* DashMap::insert
BooksInsert(map, token_id, book) ==
    [t \in DOMAIN map \cup {token_id} |-> IF t = token_id THEN book ELSE map[t]]

\* OrderBook::new
NewBook ==
    [bids |-> EmptyLevels, asks |-> EmptyLevels,
     last_update_ts |-> 0, sequence_number |-> 0]

\* OrderBookManager::new
Init ==
    /\ books = EmptyBooks
    /\ call = Idle
    /\ graph = EmptyGraph
    /\ min_edge_bps = DefaultMinEdgeBps
    /\ InitThreads
    /\ InitSigner
    /\ InitMiner

\* OrderBookManager::load_snapshot
LoadSnapshot(snapshot) ==
    /\ books' = BooksInsert(books, snapshot.token_id, FromSnapshot(snapshot))
    /\ call' = [op |-> "load_snapshot", snapshot |-> snapshot, before |-> books]

\* What apply_delta hands back.
DeltaCall(delta, result) ==
    [op |-> "apply_delta", token_id |-> delta.token_id, delta |-> delta,
     result |-> result, before |-> books]

\* OrderBookManager::apply_delta
ManagerApplyDelta(delta) ==
    IF delta.token_id \notin DOMAIN books
    THEN /\ books' = books
         /\ call' = DeltaCall(delta, "TokenNotFound")
    ELSE LET r == BookApplyDelta(books[delta.token_id], delta)
         IN  /\ books' = BooksInsert(books, delta.token_id, r.book)
             /\ call' = DeltaCall(delta, r.result)

\* OrderBookManager::find_wide_spread_markets
FindWideSpreadMarkets(min_spread_bps) ==
    /\ books' = books
    /\ call' = [op |-> "find_wide_spread_markets",
                min_spread_bps |-> min_spread_bps,
                result |-> {t \in DOMAIN books :
                               SpreadExceedsBps(books[t], min_spread_bps)},
                before |-> books]

\* The caller takes the result.
Return ==
    /\ call # Idle
    /\ call' = Idle
    /\ UNCHANGED <<books, graphVars, concVars, minerVars, signerVars>>

\* The caller makes one call at a time, with arguments from the given sets.
CallLoadSnapshot(snapshots) ==
    /\ call = Idle
    /\ \E snapshot \in snapshots : LoadSnapshot(snapshot)
    /\ UNCHANGED <<graphVars, concVars, minerVars, signerVars>>

CallApplyDelta(deltas) ==
    /\ call = Idle
    /\ \E delta \in deltas : ManagerApplyDelta(delta)
    /\ UNCHANGED <<graphVars, concVars, minerVars, signerVars>>

CallFindWideSpreadMarkets ==
    /\ call = Idle
    /\ \E min_spread_bps \in Thresholds : FindWideSpreadMarkets(min_spread_bps)
    /\ UNCHANGED <<graphVars, concVars, minerVars, signerVars>>

Next ==
    \/ CallLoadSnapshot(Snapshots)
    \/ CallApplyDelta(Deltas)
    \/ CallFindWideSpreadMarkets
    \/ Return

Spec == Init /\ [][Next]_vars

NextMgr ==
    \/ CallLoadSnapshot(MgrSnapshots)
    \/ CallApplyDelta(MgrDeltas)
    \/ CallFindWideSpreadMarkets
    \/ Return

SpecMgr == Init /\ [][NextMgr]_vars

\* ------------------------------------------------------------------------
\* The f64 order book and its manager (orderbook.rs), sequential calls.
\* An f64 price or size is written as the decimal the caller passes; the
\* prices used are ones whose product with 1_000_000.0 is exact in f64.
\* In SpecFloat the variable books is OrderbookManager.books of orderbook.rs.
\* ------------------------------------------------------------------------

\* (price * 1_000_000.0) as u64
Micro(price) == (price.m * Pow10(6)) \div Pow10(price.s)

\* OrderbookHalf::price_to_key.  The key of a bid is u64::MAX - micro in the
\* code; -micro orders the keys the same way.
PriceToKey(price, is_bid) == IF is_bid THEN -Micro(price) ELSE Micro(price)

\* OrderbookHalf::new
EmptyHalf == [k \in {} |-> {}]

\* OrderbookHalf::apply_delta
HalfApplyDelta(levels, is_bid, price, size) ==
    LET key == PriceToKey(price, is_bid)
    IN  IF ~DecGt(size, Dec(0, 0))
        THEN [k \in DOMAIN levels \ {key} |-> levels[k]]
        ELSE [k \in DOMAIN levels \cup {key} |->
                 IF k = key THEN [price |-> price, size |-> size, order_count |-> 1]
                 ELSE levels[k]]

\* Orderbook::new
NewFloatBook == [bids |-> EmptyHalf, asks |-> EmptyHalf, last_update_ts |-> 0]

\* The side strings the callers send, and str::to_lowercase on them.
Sides == {"bid", "BUY", "ask", "sell", "hold"}
ToLowercase == ("BUY" :> "buy") @@ [side \in Sides \ {"BUY"} |-> side]

\* Orderbook::apply_delta
FloatBookApplyDelta(book, delta) ==
    LET side == ToLowercase[delta.side]
    IN  IF side \in {"bid", "buy"}
        THEN [book EXCEPT !.bids = HalfApplyDelta(@, TRUE, delta.price, delta.size)]
        ELSE IF side \in {"ask", "sell"}
        THEN [book EXCEPT !.asks = HalfApplyDelta(@, FALSE, delta.price, delta.size)]
        ELSE book

\* OrderbookManager::get_or_create: the map with the token's book in it.
GetOrCreate(map, token_id) ==
    IF token_id \in DOMAIN map THEN map
    ELSE BooksInsert(map, token_id, NewFloatBook)

\* OrderbookDelta
FloatDeltas == [price : {Dec(20, 2), Dec(60, 2)}, size : Sizes, side : Sides]

\* OrderbookManager::apply_delta
FloatManagerApplyDelta(token_id, delta) ==
    LET created == GetOrCreate(books, token_id)
    IN  /\ books' = BooksInsert(created, token_id,
                                FloatBookApplyDelta(created[token_id], delta))
        /\ call' = [op |-> "apply_delta", token_id |-> token_id, delta |-> delta,
                    result |-> "()", before |-> books]

\* OrderbookManager::get
FloatGet(token_id) ==
    /\ books' = books
    /\ call' = [op |-> "get", token_id |-> token_id,
                result |-> IF token_id \in DOMAIN books
                           THEN Some(books[token_id]) ELSE None,
                before |-> books]

CallFloatApplyDelta ==
    /\ call = Idle
    /\ \E token_id \in Tokens, delta \in FloatDeltas :
          FloatManagerApplyDelta(token_id, delta)
    /\ UNCHANGED <<graphVars, concVars, minerVars, signerVars>>

CallFloatGet ==
    /\ call = Idle
    /\ \E token_id \in Tokens : FloatGet(token_id)
    /\ UNCHANGED <<graphVars, concVars, minerVars, signerVars>>

NextFloat ==
    \/ CallFloatApplyDelta
    \/ CallFloatGet
    \/ Return

SpecFloat == Init /\ [][NextFloat]_vars

\* ------------------------------------------------------------------------
\* The scanner: sequential calls on one CorrelationScanner
\* ------------------------------------------------------------------------

\* The graph holds at most MaxEdges edges.
MaxEdges == 1

\* CorrelationScanner::new
InitGraph ==
    /\ books = EmptyBooks
    /\ call = Idle
    /\ graph = EmptyGraph
    /\ min_edge_bps \in MinEdges
    /\ InitThreads
    /\ InitSigner
    /\ InitMiner

\* CorrelationScanner::add_market
AddMarket(node) ==
    LET existing == NodeOf(graph, node.market_id)
    IN  /\ graph' = IF existing # None
                    THEN [graph EXCEPT
                            !.nodes[Unwrap(existing)].current_price = node.current_price]
                    ELSE [graph EXCEPT !.nodes = Append(@, node)]
        /\ call' = call

\* CorrelationScanner::add_relationship
AddRelationship(parent_id, child_id, relation, weight) ==
    LET parent_idx == NodeOf(graph, parent_id)
        child_idx == NodeOf(graph, child_id)
        returns(result) == [op |-> "add_relationship", result |-> result]
    IN  IF parent_idx = None
        THEN /\ graph' = graph
             /\ call' = returns(<<"MarketNotFound", parent_id>>)
        ELSE IF child_idx = None
        THEN /\ graph' = graph
             /\ call' = returns(<<"MarketNotFound", child_id>>)
        ELSE /\ graph' = [graph EXCEPT !.edges = Append(@,
                              [parent |-> Unwrap(parent_idx),
                               child |-> Unwrap(child_idx),
                               relation |-> relation, weight |-> weight])]
             /\ call' = returns(<<"Ok">>)

\* CorrelationScanner::update_price
UpdatePrice(market_id, price) ==
    LET idx == NodeOf(graph, market_id)
    IN  /\ graph' = IF idx = None THEN graph
                    ELSE [graph EXCEPT !.nodes[Unwrap(idx)].current_price = Some(price)]
        /\ call' = call

\* A call of scan_violations.
Scan ==
    /\ graph' = graph
    /\ call' = [op |-> "scan_violations",
                result |-> ScanViolations(graph, min_edge_bps)]

\* A call of generate_dutch_book on a violation of the scan.
DutchBook(v) ==
    /\ graph' = graph
    /\ call' = [op |-> "generate_dutch_book", violation |-> v,
                result |-> GenerateDutchBook(graph, v)]

CallAddMarket ==
    /\ call = Idle
    /\ \E node \in MarketNodes : AddMarket(node)
    /\ UNCHANGED <<books, min_edge_bps, concVars, minerVars, signerVars>>

CallAddRelationship ==
    /\ call = Idle
    /\ Len(graph.edges) < MaxEdges
    /\ \E parent_id, child_id \in Markets, relation \in Relations, weight \in Weights :
          AddRelationship(parent_id, child_id, relation, weight)
    /\ UNCHANGED <<books, min_edge_bps, concVars, minerVars, signerVars>>

CallUpdatePrice ==
    /\ call = Idle
    /\ \E market_id \in Markets, price \in GraphPrices : UpdatePrice(market_id, price)
    /\ UNCHANGED <<books, min_edge_bps, concVars, minerVars, signerVars>>

CallScan ==
    /\ call = Idle
    /\ Scan
    /\ UNCHANGED <<books, min_edge_bps, concVars, minerVars, signerVars>>

CallDutchBook ==
    /\ call = Idle
    /\ LET scan == ScanViolations(graph, min_edge_bps)
       IN  /\ ~scan.panics
           /\ \E i \in DOMAIN scan.value : DutchBook(scan.value[i])
    /\ UNCHANGED <<books, min_edge_bps, concVars, minerVars, signerVars>>

NextGraph ==
    \/ CallAddMarket
    \/ CallAddRelationship
    \/ CallUpdatePrice
    \/ CallScan
    \/ CallDutchBook
    \/ Return

SpecGraph == InitGraph /\ [][NextGraph]_vars

\* ------------------------------------------------------------------------
\* The scanner on sibling sets: a market R and the outcomes X, Y, Z under
\* it, joined by Exclusive edges, priced "0.30", "0.40" or "0.70".
\* ------------------------------------------------------------------------

\* The graph holds at most MaxSiblingEdges edges.
MaxSiblingEdges == 3

Outcomes == {"X", "Y", "Z"}
SiblingTokenOf ==
    ("R" :> "R-yes") @@ ("X" :> "X-yes") @@ ("Y" :> "Y-yes") @@ ("Z" :> "Z-yes")
SiblingNodes ==
    {[market_id |-> m, token_id |-> SiblingTokenOf[m], current_price |-> None] :
        m \in {"R"} \cup Outcomes}
SiblingPrices == {Dec(30, 2), Dec(40, 2), Dec(70, 2)}

CallAddSiblingMarket ==
    /\ call = Idle
    /\ \E node \in SiblingNodes : AddMarket(node)
    /\ UNCHANGED <<books, min_edge_bps, concVars, minerVars, signerVars>>

CallAddSiblingRelationship ==
    /\ call = Idle
    /\ Len(graph.edges) < MaxSiblingEdges
    /\ \E child_id \in Outcomes : AddRelationship("R", child_id, "Exclusive", 100)
    /\ UNCHANGED <<books, min_edge_bps, concVars, minerVars, signerVars>>

CallUpdateSiblingPrice ==
    /\ call = Idle
    /\ \E market_id \in Outcomes, price \in SiblingPrices :
          UpdatePrice(market_id, price)
    /\ UNCHANGED <<books, min_edge_bps, concVars, minerVars, signerVars>>

NextSiblings ==
    \/ CallAddSiblingMarket
    \/ CallAddSiblingRelationship
    \/ CallUpdateSiblingPrice
    \/ CallScan
    \/ Return

SpecSiblings == InitGraph /\ [][NextSiblings]_vars

\* ------------------------------------------------------------------------
\* The scanner on a graph that breaks edge relations and exclusivity at
\* once: the markets R ("0.35"), X ("0.40") and Y ("0.70"), added in any
\* order, and the edges R -> X, R -> Y, X -> R and X -> Y, added in any
\* order.
\* ------------------------------------------------------------------------

\* The graph holds at most MaxMixedEdges edges.
MaxMixedEdges == 4

MixedNodes ==
    {[market_id |-> "R", token_id |-> "R-yes", current_price |-> Some(Dec(35, 2))],
     [market_id |-> "X", token_id |-> "X-yes", current_price |-> Some(Dec(40, 2))],
     [market_id |-> "Y", token_id |-> "Y-yes", current_price |-> Some(Dec(70, 2))]}
MixedEdges ==
    {<<"R", "X", "Implies">>, <<"R", "Y", "Contains">>,
     <<"X", "R", "Exclusive">>, <<"X", "Y", "Exclusive">>}

CallAddMixedMarket ==
    /\ call = Idle
    /\ \E node \in MixedNodes : NodeOf(graph, node.market_id) = None /\ AddMarket(node)
    /\ UNCHANGED <<books, min_edge_bps, concVars, minerVars, signerVars>>

CallAddMixedRelationship ==
    /\ call = Idle
    /\ Len(graph.edges) < MaxMixedEdges
    /\ \E edge \in MixedEdges : AddRelationship(edge[1], edge[2], edge[3], 100)
    /\ UNCHANGED <<books, min_edge_bps, concVars, minerVars, signerVars>>

NextMixed ==
    \/ CallAddMixedMarket
    \/ CallAddMixedRelationship
    \/ CallScan
    \/ Return

SpecMixed == InitGraph /\ [][NextMixed]_vars

\* ------------------------------------------------------------------------
\* CorrelationDAG (graph.rs), sequential calls.  An f64 is written as the
\* decimal the caller passes; the correlations used are 0.5, 1.0 and 1.5 (1.0
\* once clamped), by which an f64 product is exact, so the comparison of scan is the
\* comparison of the decimals.  In SpecDag the variable graph is the
\* CorrelationDAG: nodes a map from market id to Node, edges a Vec<Edge>.
\* ------------------------------------------------------------------------

\* The DAG holds at most MaxDagEdges edges.
MaxDagEdges == 2

\* CorrelationDAG::new
EmptyDag == [nodes |-> [m \in {} |-> {}], edges |-> <<>>]

\* f64::clamp(0.0, 1.0)
Clamp01(x) ==
    IF DecLt(x, Dec(0, 0)) THEN Dec(0, 0)
    ELSE IF DecGt(x, Dec(1, 0)) THEN Dec(1, 0) ELSE x

\* The descriptions, correlations and prices the callers pass.
Descriptions == {"d1", "d2"}
Correlations == {Dec(5, 1), Dec(1, 0), Dec(15, 1)}
DagPrices == {Dec(0, 0), Dec(35, 2), Dec(50, 2), Dec(70, 2)}
PriceMaps == UNION {[ms -> DagPrices] : ms \in SUBSET Markets}

\* HashMap::get(..).copied()
PriceOf(prices, market_id) ==
    IF market_id \in DOMAIN prices THEN Some(prices[market_id]) ELSE None

\* mispricing / cp * 10_000.0: +inf when cp is 0.0 (mispricing is positive),
\* else the quotient, written to DivDigits digits.
MispricingBps(mispricing, cp) ==
    IF IsZero(cp) THEN <<"inf">>
    ELSE <<DecMul(DecDiv(mispricing, cp), Dec(10000, 0))>>

\* The body of the for loop of CorrelationDAG::scan for one edge: the
\* violations it pushes.  The code compares with <; or_equal makes it <=.
DagCheckEdge(edge, prices, or_equal) ==
    LET parent_price == PriceOf(prices, edge.parent_id)
        child_price == PriceOf(prices, edge.child_id)
    IN  IF parent_price = None \/ child_price = None THEN <<>>
        ELSE LET pp == Unwrap(parent_price)
                 cp == Unwrap(child_price)
                 expected_min == DecMul(pp, edge.correlation)
                 mispricing == DecSub(expected_min, cp)
             IN  IF DecLt(cp, expected_min) \/ (or_equal /\ DecEq(cp, expected_min))
                 THEN <<[parent_id |-> edge.parent_id,
                         child_id |-> edge.child_id,
                         parent_price |-> pp,
                         child_price |-> cp,
                         correlation |-> edge.correlation,
                         mispricing |-> mispricing,
                         mispricing_bps |-> MispricingBps(mispricing, cp),
                         action |-> <<"BUY ", edge.child_id,
                                      " (underpriced) / SELL ", edge.parent_id,
                                      " (overpriced)">>]>>
                 ELSE <<>>

RECURSIVE DagScanFrom(_, _, _, _)
DagScanFrom(edges, prices, n, or_equal) ==
    IF n = 0 THEN <<>>
    ELSE DagScanFrom(edges, prices, n - 1, or_equal)
         \o DagCheckEdge(edges[n], prices, or_equal)

\* A mutant of DagScan: an edge is reported when cp <= expected_min.
DagScanOrEqual(dag, prices) ==
    DagScanFrom(dag.edges, prices, Len(dag.edges), TRUE)

\* CorrelationDAG::scan
DagScan(dag, prices) ==
    DagScanFrom(dag.edges, prices, Len(dag.edges), FALSE)

\* CorrelationDAG::new
InitDag ==
    /\ books = EmptyBooks
    /\ call = Idle
    /\ graph = EmptyDag
    /\ min_edge_bps = DefaultMinEdgeBps
    /\ InitThreads
    /\ InitSigner
    /\ InitMiner

\* CorrelationDAG::add_node
DagAddNode(market_id, description) ==
    /\ graph' = [graph EXCEPT !.nodes =
                    [m \in DOMAIN @ \cup {market_id} |->
                        IF m = market_id
                        THEN [market_id |-> market_id, description |-> description]
                        ELSE @[m]]]
    /\ call' = call

\* CorrelationDAG::add_edge
DagAddEdge(parent_id, child_id, correlation) ==
    /\ graph' = [graph EXCEPT !.edges = Append(@,
                    [parent_id |-> parent_id, child_id |-> child_id,
                     correlation |-> Clamp01(correlation)])]
    /\ call' = call

\* A call of CorrelationDAG::scan.
DagScanCall(prices) ==
    /\ graph' = graph
    /\ call' = [op |-> "scan", prices |-> prices, result |-> DagScan(graph, prices)]

CallDagAddNode ==
    /\ call = Idle
    /\ \E market_id \in Markets, description \in Descriptions :
          DagAddNode(market_id, description)
    /\ UNCHANGED <<books, min_edge_bps, concVars, minerVars, signerVars>>

CallDagAddEdge ==
    /\ call = Idle
    /\ Len(graph.edges) < MaxDagEdges
    /\ \E parent_id, child_id \in Markets, correlation \in Correlations :
          DagAddEdge(parent_id, child_id, correlation)
    /\ UNCHANGED <<books, min_edge_bps, concVars, minerVars, signerVars>>

CallDagScan ==
    /\ call = Idle
    /\ \E prices \in PriceMaps : DagScanCall(prices)
    /\ UNCHANGED <<books, min_edge_bps, concVars, minerVars, signerVars>>

NextDag ==
    \/ CallDagAddNode
    \/ CallDagAddEdge
    \/ CallDagScan
    \/ Return

SpecDag == InitDag /\ [][NextDag]_vars

\* ------------------------------------------------------------------------
\* NegRiskMiner (negrisk 2.rs), sequential calls.  Its order book manager
\* is the variable books.
\* ------------------------------------------------------------------------

\* Iterator::sum over Decimal, from Decimal::ZERO.
RECURSIVE SumDecimals(_)
SumDecimals(xs) ==
    IF xs = <<>> THEN Dec(0, 0)
    ELSE DecAdd(SumDecimals(SubSeq(xs, 1, Len(xs) - 1)), xs[Len(xs)])

\* Ord::min
DecMin(a, b) == IF DecGt(a, b) THEN b ELSE a

\* The basis points of a profit ratio: the decimal is printed and the text
\* parsed as an i32, 0 standing in for a text that does not parse.
ProfitBps(ratio) ==
    LET bps == ParseI32(DecToString(DecMul(ratio, Dec(10000, 0))))
    IN  IF bps = None THEN 0 ELSE Unwrap(bps)

\* Decimal::from(fee_bps) / Decimal::from(10000)
FeeAdjustment(fee_bps) == DecDiv(Dec(fee_bps, 0), Dec(10000, 0))

\* The first loop of check_market: for each outcome its token, its name
\* and the best price of one side of its book, where there is one.
BestPrices(map, market, is_bid) ==
    [i \in DOMAIN market.token_ids |->
        LET token_id == market.token_ids[i]
        IN  [token_id |-> token_id,
             outcome_name |-> IF i \in DOMAIN market.outcome_names
                              THEN <<market.outcome_names[i]>>
                              ELSE <<"Outcome ", i - 1>>,
             price |-> IF token_id \in DOMAIN map
                       THEN BestPrice(IF is_bid THEN map[token_id].bids
                                      ELSE map[token_id].asks, is_bid)
                       ELSE None]]

\* The legs of an opportunity: one for each outcome, at its best price.
Legs(quotes, side) ==
    [i \in DOMAIN quotes |->
        [token_id |-> quotes[i].token_id,
         outcome_name |-> quotes[i].outcome_name,
         side |-> side,
         price |-> Unwrap(quotes[i].price),
         size |-> Dec(1, 0)]]

\* NegRiskMiner::check_mint_and_sell
CheckMintAndSell(cfg, condition_id, bids) ==
    IF \E i \in DOMAIN bids : bids[i].price = None THEN None
    ELSE LET sum_bids == SumDecimals([i \in DOMAIN bids |-> Unwrap(bids[i].price)])
             fee_adjustment == FeeAdjustment(cfg.fee_bps)
             threshold == DecAdd(Dec(1, 0), fee_adjustment)
             mint_cost == Dec(1, 0)
             sell_revenue == DecMul(sum_bids, DecSub(Dec(1, 0), fee_adjustment))
             profit == DecSub(sell_revenue, mint_cost)
         IN  IF ~DecGt(sum_bids, threshold) THEN None
             ELSE Some([arb_type |-> "MintAndSell",
                        condition_id |-> condition_id,
                        expected_profit_bps |-> ProfitBps(DecDiv(profit, mint_cost)),
                        total_cost |-> mint_cost,
                        total_revenue |-> sell_revenue,
                        legs |-> Legs(bids, "SELL")])

\* NegRiskMiner::check_buy_and_merge.  Decimal's division panics on a zero
\* divisor.
CheckBuyAndMerge(cfg, condition_id, asks) ==
    IF \E i \in DOMAIN asks : asks[i].price = None THEN Returned(None)
    ELSE LET sum_asks == SumDecimals([i \in DOMAIN asks |-> Unwrap(asks[i].price)])
             fee_adjustment == FeeAdjustment(cfg.fee_bps)
             threshold == DecSub(Dec(1, 0), fee_adjustment)
             buy_cost == DecMul(sum_asks, DecAdd(Dec(1, 0), fee_adjustment))
             merge_revenue == Dec(1, 0)
             profit == DecSub(merge_revenue, buy_cost)
         IN  IF ~DecLt(sum_asks, threshold) THEN Returned(None)
             ELSE IF IsZero(buy_cost) THEN Panicked
             ELSE Returned(Some(
                     [arb_type |-> "BuyAndMerge",
                      condition_id |-> condition_id,
                      expected_profit_bps |-> ProfitBps(DecDiv(profit, buy_cost)),
                      total_cost |-> buy_cost,
                      total_revenue |-> merge_revenue,
                      legs |-> Legs(asks, "BUY")]))

\* A mutant of CheckMarket: buy-and-merge is tried first.
CheckMarketMergeFirst(map, cfg, market) ==
    LET mint == CheckMintAndSell(cfg, market.condition_id, BestPrices(map, market, TRUE))
        merge == CheckBuyAndMerge(cfg, market.condition_id,
                                  BestPrices(map, market, FALSE))
    IN  IF merge.panics THEN Panicked
        ELSE IF merge.value # None
                /\ Unwrap(merge.value).expected_profit_bps >= cfg.min_arb_bps
        THEN merge
        ELSE IF mint # None /\ Unwrap(mint).expected_profit_bps >= cfg.min_arb_bps
        THEN Returned(mint)
        ELSE Returned(None)

\* NegRiskMiner::check_market
CheckMarket(map, cfg, market) ==
    LET mint == CheckMintAndSell(cfg, market.condition_id, BestPrices(map, market, TRUE))
        merge == CheckBuyAndMerge(cfg, market.condition_id,
                                  BestPrices(map, market, FALSE))
    IN  IF mint # None /\ Unwrap(mint).expected_profit_bps >= cfg.min_arb_bps
        THEN Returned(mint)
        ELSE IF merge.panics THEN Panicked
        ELSE IF merge.value # None
                /\ Unwrap(merge.value).expected_profit_bps >= cfg.min_arb_bps
        THEN merge
        ELSE Returned(None)

\* The sizes calculate_position_size collects: one for each leg whose token
\* has a book, the size at the leg's price on the asks of a BUY leg, on the
\* bids of any other.
RECURSIVE LegSizes(_, _)
LegSizes(map, legs) ==
    IF legs = <<>> THEN <<>>
    ELSE LET leg == Head(legs)
         IN  (IF leg.token_id \notin DOMAIN map THEN <<>>
              ELSE IF leg.side = "BUY"
              THEN <<SizeAtPrice(map[leg.token_id].asks, leg.price)>>
              ELSE <<SizeAtPrice(map[leg.token_id].bids, leg.price)>>)
             \o LegSizes(map, Tail(legs))

\* Iterator::min(..).unwrap_or(Decimal::ZERO)
RECURSIVE MinOrZero(_)
MinOrZero(xs) ==
    IF xs = <<>> THEN Dec(0, 0)
    ELSE IF Len(xs) = 1 THEN xs[1]
    ELSE DecMin(xs[1], MinOrZero(Tail(xs)))

\* NegRiskMiner::calculate_position_size
CalculatePositionSize(map, cfg, arb) ==
    DecMin(MinOrZero(LegSizes(map, arb.legs)), cfg.max_position_usd)

\* The configurations the miner is built with: the default one, one with no
\* minimum profit and a small position limit, one with a 2% fee.
Configs ==
    {DefaultConfig,
     [min_arb_bps |-> 0, max_position_usd |-> Dec(3, 0), fee_bps |-> 0],
     [min_arb_bps |-> DefaultMinArbBps, max_position_usd |-> Dec(3, 0),
      fee_bps |-> 200]}

\* The markets registered or checked: condition M with no, one or two
\* outcome tokens and one outcome name.
MinerMarkets ==
    {[condition_id |-> "M", token_ids |-> token_ids, outcome_names |-> <<"Yes">>] :
        token_ids \in {<<>>, <<"A">>, <<"A", "B">>}}

\* The snapshots loaded into the miner's manager: at most one level a side,
\* bids at "0.49", "0.55" or "1", asks at "0.25", "0.45" or "0.51".
MinerBids ==
    {<<>>, <<Level(Dec(55, 2), Dec(2, 0))>>, <<Level(Dec(55, 2), Dec(5, 0))>>,
     <<Level(Dec(49, 2), Dec(5, 0))>>, <<Level(Dec(1, 0), Dec(5, 0))>>}
MinerAsks ==
    {<<>>, <<Level(Dec(45, 2), Dec(2, 0))>>, <<Level(Dec(45, 2), Dec(5, 0))>>,
     <<Level(Dec(51, 2), Dec(5, 0))>>, <<Level(Dec(25, 2), Dec(5, 0))>>}
MinerSnapshots ==
    {[token_id |-> t, bids |-> b, asks |-> a, timestamp |-> 0, sequence |-> 0] :
        t \in Tokens, b \in MinerBids, a \in MinerAsks}

\* The opportunities handed to calculate_position_size: BUY legs at "0.45"
\* or SELL legs at "0.55", for token A or for A and B, or no leg at all.
ArbOf(side, prices) ==
    [arb_type |-> IF side = "BUY" THEN "BuyAndMerge" ELSE "MintAndSell",
     condition_id |-> "M",
     expected_profit_bps |-> 0,
     total_cost |-> Dec(1, 0),
     total_revenue |-> Dec(1, 0),
     legs |-> [i \in DOMAIN prices |->
                  [token_id |-> <<"A", "B">>[i], outcome_name |-> <<"Yes">>,
                   side |-> side, price |-> prices[i], size |-> Dec(1, 0)]]]
LegPrice == ("BUY" :> Dec(45, 2)) @@ ("SELL" :> Dec(55, 2))
Arbs ==
    {ArbOf(side, [i \in 1..n |-> LegPrice[side]]) : side \in {"BUY", "SELL"}, n \in 0..2}

\* NegRiskMiner::new
InitMinerWith ==
    /\ books = EmptyBooks
    /\ call = Idle
    /\ graph = EmptyGraph
    /\ min_edge_bps = DefaultMinEdgeBps
    /\ InitThreads
    /\ InitSigner
    /\ markets = NoMarkets
    /\ config \in Configs

\* PyNegRiskMiner::load_snapshot
MinerLoadSnapshot(snapshot) ==
    /\ books' = BooksInsert(books, snapshot.token_id, FromSnapshot(snapshot))
    /\ UNCHANGED <<call, markets>>

\* NegRiskMiner::register_market
RegisterMarket(market) ==
    /\ markets' = [c \in DOMAIN markets \cup {market.condition_id} |->
                      IF c = market.condition_id THEN market ELSE markets[c]]
    /\ UNCHANGED <<call, books>>

\* NegRiskMiner::unregister_market
UnregisterMarket(condition_id) ==
    /\ markets' = [c \in DOMAIN markets \ {condition_id} |-> markets[c]]
    /\ UNCHANGED <<call, books>>

\* NegRiskMiner::scan_all.  The opportunities come in the order of the
\* HashMap; the result is kept as their set.
ScanAll ==
    LET checks == [c \in DOMAIN markets |-> CheckMarket(books, config, markets[c])]
    IN  /\ call' = [op |-> "scan_all",
                    result |-> IF \E c \in DOMAIN checks : checks[c].panics
                               THEN Panicked
                               ELSE Returned({Unwrap(checks[c].value) :
                                   c \in {d \in DOMAIN checks : checks[d].value # None}})]
        /\ UNCHANGED <<books, markets>>

\* A call of NegRiskMiner::check_market.
CheckMarketCall(market) ==
    /\ call' = [op |-> "check_market", market |-> market,
                result |-> CheckMarket(books, config, market)]
    /\ UNCHANGED <<books, markets>>

\* A call of NegRiskMiner::calculate_position_size.
PositionSizeCall(arb) ==
    /\ call' = [op |-> "calculate_position_size", arb |-> arb,
                result |-> CalculatePositionSize(books, config, arb)]
    /\ UNCHANGED <<books, markets>>

CallMinerLoadSnapshot ==
    /\ call = Idle
    /\ \E snapshot \in MinerSnapshots : MinerLoadSnapshot(snapshot)
    /\ UNCHANGED <<graphVars, concVars, config, signerVars>>

CallRegisterMarket ==
    /\ call = Idle
    /\ \E market \in MinerMarkets : RegisterMarket(market)
    /\ UNCHANGED <<graphVars, concVars, config, signerVars>>

CallUnregisterMarket ==
    /\ call = Idle
    /\ \E market \in MinerMarkets : UnregisterMarket(market.condition_id)
    /\ UNCHANGED <<graphVars, concVars, config, signerVars>>

CallScanAll ==
    /\ call = Idle
    /\ ScanAll
    /\ UNCHANGED <<graphVars, concVars, config, signerVars>>

CallCheckMarket ==
    /\ call = Idle
    /\ \E market \in MinerMarkets : CheckMarketCall(market)
    /\ UNCHANGED <<graphVars, concVars, config, signerVars>>

CallPositionSize ==
    /\ call = Idle
    /\ \E arb \in Arbs : PositionSizeCall(arb)
    /\ UNCHANGED <<graphVars, concVars, config, signerVars>>

NextMiner ==
    \/ CallMinerLoadSnapshot
    \/ CallRegisterMarket
    \/ CallUnregisterMarket
    \/ CallScanAll
    \/ CallCheckMarket
    \/ CallPositionSize
    \/ Return

SpecMiner == InitMinerWith /\ [][NextMiner]_vars

\* ------------------------------------------------------------------------
\* NegRisk (negrisk.rs), sequential calls.  An f64 is written as the decimal
\* the caller passes; the prices, fees and minimums used keep every sum
\* away from the threshold it is compared with, so the comparisons of the
\* f64 values are the comparisons of the decimals.  In SpecNegRisk the
\* variable config is NegRisk.config.
\* ------------------------------------------------------------------------

\* NegRiskConfig::new: DEFAULT_FEE, 10 bps, 1000 notional.
FloatDefaultConfig ==
    [fee |-> Dec(2, 2), min_profit_bps |-> Dec(10, 0), max_notional |-> Dec(1000, 0)]

\* The configurations set_config and with_config are given.
FloatConfigs ==
    {FloatDefaultConfig,
     [fee |-> Dec(0, 0), min_profit_bps |-> Dec(10, 0), max_notional |-> Dec(1000, 0)],
     [fee |-> Dec(2, 2), min_profit_bps |-> Dec(500, 0), max_notional |-> Dec(1000, 0)]}

\* The best bids and best asks handed to scan: one for each outcome.
ScanBids == {Dec(40, 2), Dec(49, 2), Dec(55, 2)}
ScanAsks == {Dec(45, 2), Dec(51, 2), Dec(60, 2)}
PriceLists(prices) ==
    {<<>>} \cup {<<x>> : x \in prices} \cup {<<x, y>> : x \in prices, y \in prices}

\* The Opportunity scan returns.
OpportunityOf(opportunity_type, condition_id, prices, sum_bids, sum_asks, profit_gross, cfg) ==
    LET profit_net == DecSub(profit_gross, cfg.fee)
        profit_bps == DecMul(profit_net, Dec(10000, 0))
    IN  [opportunity_type |-> opportunity_type,
         condition_id |-> condition_id,
         prices |-> prices,
         sum_bids |-> sum_bids,
         sum_asks |-> sum_asks,
         profit_gross |-> profit_gross,
         profit_net |-> profit_net,
         profit_bps |-> profit_bps,
         is_profitable |-> ~DecLt(profit_bps, cfg.min_profit_bps)]

\* The Opportunity of a market with nothing to take.
NoOpportunity(condition_id, sum_bids, sum_asks) ==
    [opportunity_type |-> "None",
     condition_id |-> condition_id,
     prices |-> <<>>,
     sum_bids |-> sum_bids,
     sum_asks |-> sum_asks,
     profit_gross |-> Dec(0, 0),
     profit_net |-> Dec(0, 0),
     profit_bps |-> Dec(0, 0),
     is_profitable |-> FALSE]

\* A mutant of NegRiskScan: buy-and-merge is tested first.
NegRiskScanMergeFirst(cfg, condition_id, bids, asks) ==
    LET sum_bids == SumDecimals(bids)
        sum_asks == SumDecimals(asks)
    IN  IF DecLt(sum_asks, DecSub(Dec(1, 0), cfg.fee))
        THEN OpportunityOf("BuyAndMerge", condition_id, asks, sum_bids, sum_asks,
                           DecSub(Dec(1, 0), sum_asks), cfg)
        ELSE IF DecGt(sum_bids, DecAdd(Dec(1, 0), cfg.fee))
        THEN OpportunityOf("MintAndSell", condition_id, bids, sum_bids, sum_asks,
                           DecSub(sum_bids, Dec(1, 0)), cfg)
        ELSE NoOpportunity(condition_id, sum_bids, sum_asks)

\* NegRisk::scan
NegRiskScan(cfg, condition_id, bids, asks) ==
    LET sum_bids == SumDecimals(bids)
        sum_asks == SumDecimals(asks)
        mint_threshold == DecAdd(Dec(1, 0), cfg.fee)
        merge_threshold == DecSub(Dec(1, 0), cfg.fee)
    IN  IF DecGt(sum_bids, mint_threshold)
        THEN OpportunityOf("MintAndSell", condition_id, bids, sum_bids, sum_asks,
                           DecSub(sum_bids, Dec(1, 0)), cfg)
        ELSE IF DecLt(sum_asks, merge_threshold)
        THEN OpportunityOf("BuyAndMerge", condition_id, asks, sum_bids, sum_asks,
                           DecSub(Dec(1, 0), sum_asks), cfg)
        ELSE NoOpportunity(condition_id, sum_bids, sum_asks)

\* NegRisk::quick_check
QuickCheck(cfg, bids, asks) ==
    \/ DecGt(SumDecimals(bids), DecAdd(Dec(1, 0), cfg.fee))
    \/ DecLt(SumDecimals(asks), DecSub(Dec(1, 0), cfg.fee))

\* NegRisk::new
InitNegRisk ==
    /\ books = EmptyBooks
    /\ call = Idle
    /\ graph = EmptyGraph
    /\ min_edge_bps = DefaultMinEdgeBps
    /\ InitThreads
    /\ InitSigner
    /\ markets = NoMarkets
    /\ config = FloatDefaultConfig

\* NegRisk::set_config
CallSetConfig ==
    /\ call = Idle
    /\ \E cfg \in FloatConfigs : config' = cfg
    /\ UNCHANGED <<books, call, graphVars, concVars, markets, signerVars>>

\* NegRisk::get_config
CallGetConfig ==
    /\ call = Idle
    /\ call' = [op |-> "get_config", result |-> config]
    /\ UNCHANGED <<books, graphVars, concVars, minerVars, signerVars>>

\* A call of NegRisk::scan.
CallNegRiskScan ==
    /\ call = Idle
    /\ \E bids \in PriceLists(ScanBids), asks \in PriceLists(ScanAsks) :
          call' = [op |-> "scan", bids |-> bids, asks |-> asks,
                   result |-> NegRiskScan(config, "M", bids, asks)]
    /\ UNCHANGED <<books, graphVars, concVars, minerVars, signerVars>>

\* A call of NegRisk::scan_binary.
CallScanBinary ==
    /\ call = Idle
    /\ \E yes_bid, no_bid \in ScanBids, yes_ask, no_ask \in ScanAsks :
          call' = [op |-> "scan_binary",
                   bids |-> <<yes_bid, no_bid>>, asks |-> <<yes_ask, no_ask>>,
                   result |-> NegRiskScan(config, "M", <<yes_bid, no_bid>>,
                                          <<yes_ask, no_ask>>)]
    /\ UNCHANGED <<books, graphVars, concVars, minerVars, signerVars>>

\* A call of NegRisk::quick_check.
CallQuickCheck ==
    /\ call = Idle
    /\ \E bids \in PriceLists(ScanBids), asks \in PriceLists(ScanAsks) :
          call' = [op |-> "quick_check", bids |-> bids, asks |-> asks,
                   result |-> QuickCheck(config, bids, asks)]
    /\ UNCHANGED <<books, graphVars, concVars, minerVars, signerVars>>

NextNegRisk ==
    \/ CallSetConfig
    \/ CallGetConfig
    \/ CallNegRiskScan
    \/ CallScanBinary
    \/ CallQuickCheck
    \/ Return

SpecNegRisk == InitNegRisk /\ [][NextNegRisk]_vars

\* ------------------------------------------------------------------------
\* Vulture (vulture 2.rs; vulture.rs has the same scan and a looser slug
\* test), sequential calls.  An f64 is written as the decimal the caller
\* passes.  The quotes and configurations used either make the f64
\* operations exact (0.25, 0.5, 0.75 and their sums) or keep the value
\* away from the threshold it is compared with, so the comparisons of the
\* f64 values are the comparisons of the decimals.  A slug is the sequence
\* of its characters.  In SpecVulture the variable config is Vulture.config.
\* ------------------------------------------------------------------------

\* VultureConfig::new
VultureDefaultConfig ==
    [min_spread_bps |-> Dec(50, 0), max_spread_bps |-> Dec(500, 0),
     min_mid_price |-> Dec(5, 2), edge_fraction |-> Dec(25, 2),
     force_post_only |-> FALSE]

\* The configurations set_config and with_config are given.
VultureConfigs ==
    {VultureDefaultConfig,
     [VultureDefaultConfig EXCEPT !.force_post_only = TRUE],
     [min_spread_bps |-> Dec(50, 0), max_spread_bps |-> Dec(10000, 0),
      min_mid_price |-> Dec(5, 1), edge_fraction |-> Dec(5, 1),
      force_post_only |-> FALSE],
     [min_spread_bps |-> Dec(10000, 0), max_spread_bps |-> Dec(10000, 0),
      min_mid_price |-> Dec(5, 2), edge_fraction |-> Dec(75, 2),
      force_post_only |-> FALSE]}

\* The slugs the callers pass: "btc-15m", "BTC-15MIN", "up-eth-15m",
\* "meth-15m", "btc-daily", "test-market".
Slugs ==
    {<<"b", "t", "c", "-", "1", "5", "m">>,
     <<"B", "T", "C", "-", "1", "5", "M", "I", "N">>,
     <<"u", "p", "-", "e", "t", "h", "-", "1", "5", "m">>,
     <<"m", "e", "t", "h", "-", "1", "5", "m">>,
     <<"b", "t", "c", "-", "d", "a", "i", "l", "y">>,
     <<"t", "e", "s", "t", "-", "m", "a", "r", "k", "e", "t">>}

\* char::to_lowercase on the characters of the slugs.
LowerChar(c) ==
    CASE c = "B" -> "b"
      [] c = "C" -> "c"
      [] c = "I" -> "i"
      [] c = "M" -> "m"
      [] c = "N" -> "n"
      [] c = "T" -> "t"
      [] OTHER -> c

\* str::to_lowercase
SlugToLowercase(slug) == [i \in DOMAIN slug |-> LowerChar(slug[i])]

\* str::starts_with
StartsWith(str, pattern) ==
    /\ Len(pattern) <= Len(str)
    /\ SubSeq(str, 1, Len(pattern)) = pattern

\* str::contains
Contains(str, pattern) ==
    \E i \in 1..(Len(str) - Len(pattern) + 1) :
        SubSeq(str, i, i + Len(pattern) - 1) = pattern

\* The crypto_prefixes of is_15min_crypto_market.
CryptoPrefixes ==
    {<<"b", "t", "c">>, <<"b", "i", "t", "c", "o", "i", "n">>,
     <<"e", "t", "h">>, <<"e", "t", "h", "e", "r", "e", "u", "m">>,
     <<"s", "o", "l">>, <<"s", "o", "l", "a", "n", "a">>,
     <<"x", "r", "p">>, <<"r", "i", "p", "p", "l", "e">>,
     <<"d", "o", "g", "e">>, <<"d", "o", "g", "e", "c", "o", "i", "n">>,
     <<"b", "n", "b">>, <<"b", "i", "n", "a", "n", "c", "e">>,
     <<"a", "d", "a">>, <<"c", "a", "r", "d", "a", "n", "o">>,
     <<"a", "v", "a", "x">>, <<"a", "v", "a", "l", "a", "n", "c", "h", "e">>,
     <<"m", "a", "t", "i", "c">>, <<"p", "o", "l", "y", "g", "o", "n">>,
     <<"l", "i", "n", "k">>, <<"c", "h", "a", "i", "n", "l", "i", "n", "k">>,
     <<"c", "r", "y", "p", "t", "o">>}

\* is_15min_crypto_market
Is15MinCryptoMarket(market_slug) ==
    LET slug == SlugToLowercase(market_slug)
        is_15min ==
            \/ Contains(slug, <<"1", "5", "m">>)
            \/ Contains(slug, <<"1", "5", "-", "m", "i", "n">>)
            \/ Contains(slug, <<"1", "5", "m", "i", "n">>)
            \/ Contains(slug, <<"f", "i", "f", "t", "e", "e", "n", "-", "m", "i", "n">>)
    IN  /\ is_15min
        /\ \E prefix \in CryptoPrefixes :
              \/ StartsWith(slug, prefix)
              \/ Contains(slug, <<"-">> \o prefix \o <<"-">>)

\* The quotes handed to scan.
VultureBids ==
    {Dec(0, 0), Dec(4, 2), Dec(25, 2), Dec(45, 2), Dec(49, 2), Dec(499, 3), Dec(55, 2)}
VultureAsks ==
    {Dec(0, 0), Dec(5, 2), Dec(49, 2), Dec(501, 3), Dec(51, 2), Dec(55, 2), Dec(75, 2)}

\* The MarketOpportunity scan builds once the quote has passed its tests.
MarketOpportunityOf(cfg, market_slug, condition_id, best_bid, best_ask, mid_price, spread_bps) ==
    LET is_crypto == Is15MinCryptoMarket(market_slug)
        spread == DecSub(best_ask, best_bid)
        edge == DecMul(spread, cfg.edge_fraction)
        recommended_price == DecAdd(best_bid, edge)
    IN  [market_slug |-> market_slug,
         condition_id |-> condition_id,
         spread_bps |-> spread_bps,
         best_bid |-> best_bid,
         best_ask |-> best_ask,
         mid_price |-> mid_price,
         is_crypto_15min |-> is_crypto,
         recommended_side |->
             IF DecLt(recommended_price, mid_price) THEN "BUY" ELSE "SELL",
         recommended_price |-> recommended_price,
         use_post_only |-> is_crypto \/ cfg.force_post_only]

\* (spread / mid_price) * 10_000.0
SpreadBps(best_bid, best_ask, mid_price) ==
    DecMul(DecDiv(DecSub(best_ask, best_bid), mid_price), Dec(10000, 0))

\* A mutant of VultureScan: a spread equal to a limit is rejected.
VultureScanStrict(cfg, market_slug, condition_id, best_bid, best_ask) ==
    IF ~DecGt(best_bid, Dec(0, 0)) \/ ~DecGt(best_ask, Dec(0, 0))
       \/ ~DecLt(best_bid, best_ask)
    THEN None
    ELSE LET mid_price == DecDiv(DecAdd(best_bid, best_ask), Dec(2, 0))
             spread_bps == SpreadBps(best_bid, best_ask, mid_price)
         IN  IF DecLt(mid_price, cfg.min_mid_price)
             THEN None
             ELSE IF ~DecGt(spread_bps, cfg.min_spread_bps)
                     \/ ~DecLt(spread_bps, cfg.max_spread_bps)
             THEN None
             ELSE Some(MarketOpportunityOf(cfg, market_slug, condition_id,
                                           best_bid, best_ask, mid_price, spread_bps))

\* A mutant of VultureScan: post-only is left to the slug alone.
VultureScanNoForce(cfg, market_slug, condition_id, best_bid, best_ask) ==
    IF ~DecGt(best_bid, Dec(0, 0)) \/ ~DecGt(best_ask, Dec(0, 0))
       \/ ~DecLt(best_bid, best_ask)
    THEN None
    ELSE LET mid_price == DecDiv(DecAdd(best_bid, best_ask), Dec(2, 0))
             spread_bps == SpreadBps(best_bid, best_ask, mid_price)
         IN  IF DecLt(mid_price, cfg.min_mid_price)
             THEN None
             ELSE IF DecLt(spread_bps, cfg.min_spread_bps)
                     \/ DecGt(spread_bps, cfg.max_spread_bps)
             THEN None
             ELSE Some([MarketOpportunityOf(cfg, market_slug, condition_id,
                                            best_bid, best_ask, mid_price, spread_bps)
                        EXCEPT !.use_post_only = Is15MinCryptoMarket(market_slug)])

\* Vulture::scan
VultureScan(cfg, market_slug, condition_id, best_bid, best_ask) ==
    IF ~DecGt(best_bid, Dec(0, 0)) \/ ~DecGt(best_ask, Dec(0, 0))
       \/ ~DecLt(best_bid, best_ask)
    THEN None
    ELSE LET mid_price == DecDiv(DecAdd(best_bid, best_ask), Dec(2, 0))
             spread_bps == SpreadBps(best_bid, best_ask, mid_price)
         IN  IF DecLt(mid_price, cfg.min_mid_price)
             THEN None
             ELSE IF DecLt(spread_bps, cfg.min_spread_bps)
                     \/ DecGt(spread_bps, cfg.max_spread_bps)
             THEN None
             ELSE Some(MarketOpportunityOf(cfg, market_slug, condition_id,
                                           best_bid, best_ask, mid_price, spread_bps))

\* The markets handed to scan_batch: (slug, condition id, bid, ask).
BatchMarkets ==
    {<<<<"b", "t", "c", "-", "1", "5", "m">>, "0x1", Dec(49, 2), Dec(51, 2)>>,
     <<<<"t", "e", "s", "t", "-", "m", "a", "r", "k", "e", "t">>, "0x2", Dec(45, 2), Dec(55, 2)>>,
     <<<<"b", "t", "c", "-", "d", "a", "i", "l", "y">>, "0x3", Dec(25, 2), Dec(75, 2)>>}
Batches ==
    {<<>>} \cup {<<x>> : x \in BatchMarkets}
           \cup {<<x, y>> : x \in BatchMarkets, y \in BatchMarkets}

\* Vulture::scan_batch: filter_map of scan over the markets, in order.
RECURSIVE ScanBatch(_, _)
ScanBatch(cfg, batch) ==
    IF batch = <<>> THEN <<>>
    ELSE LET market == Head(batch)
         IN  VultureScan(cfg, market[1], market[2], market[3], market[4])
             \o ScanBatch(cfg, Tail(batch))

\* Vulture::new
InitVulture ==
    /\ books = EmptyBooks
    /\ call = Idle
    /\ graph = EmptyGraph
    /\ min_edge_bps = DefaultMinEdgeBps
    /\ InitThreads
    /\ InitSigner
    /\ markets = NoMarkets
    /\ config = VultureDefaultConfig

\* Vulture::set_config
CallVultureSetConfig ==
    /\ call = Idle
    /\ \E cfg \in VultureConfigs : config' = cfg
    /\ UNCHANGED <<books, call, graphVars, concVars, markets, signerVars>>

\* Vulture::get_config
CallVultureGetConfig ==
    /\ call = Idle
    /\ call' = [op |-> "get_config", result |-> config]
    /\ UNCHANGED <<books, graphVars, concVars, minerVars, signerVars>>

\* Vulture::is_15min_crypto
CallIs15MinCrypto ==
    /\ call = Idle
    /\ \E market_slug \in Slugs :
          call' = [op |-> "is_15min_crypto", market_slug |-> market_slug,
                   result |-> Is15MinCryptoMarket(market_slug)]
    /\ UNCHANGED <<books, graphVars, concVars, minerVars, signerVars>>

\* A call of Vulture::scan.
CallVultureScan ==
    /\ call = Idle
    /\ \E market_slug \in Slugs, best_bid \in VultureBids, best_ask \in VultureAsks :
          call' = [op |-> "vulture_scan", market_slug |-> market_slug,
                   best_bid |-> best_bid, best_ask |-> best_ask,
                   result |-> VultureScan(config, market_slug, "0x123",
                                          best_bid, best_ask)]
    /\ UNCHANGED <<books, graphVars, concVars, minerVars, signerVars>>

\* A call of Vulture::scan_batch.
CallScanBatch ==
    /\ call = Idle
    /\ \E batch \in Batches :
          call' = [op |-> "scan_batch", batch |-> batch,
                   result |-> ScanBatch(config, batch)]
    /\ UNCHANGED <<books, graphVars, concVars, minerVars, signerVars>>

NextVulture ==
    \/ CallVultureSetConfig
    \/ CallVultureGetConfig
    \/ CallIs15MinCrypto
    \/ CallVultureScan
    \/ CallScanBatch
    \/ Return

SpecVulture == InitVulture /\ [][NextVulture]_vars

\* ------------------------------------------------------------------------
\* PolymarketSigner (signer 2.rs).  A byte is a record: a literal byte has
\* source "byte" and its value; the i-th byte of a hash or of an address
\* has the hash or the address as its source and i as its value.  A hash
\* is the record of what was hashed.  A string handed to the signer is the
\* sequence of its characters.
\* ------------------------------------------------------------------------

\* The signer's nonce (u64 in the code) stays below MaxNonce.
MaxNonce == 3

CHAIN_ID == 137
CTF_EXCHANGE == "0x4bFb41d5B3570DeFd03C39a9A4D8dE6Bd8B8982E"
NEGRISK_CTF_EXCHANGE == "0xC5d563A36AE78145C45a50134d48A1215220f80a"

Literal(value) == [source |-> "byte", value |-> value]
Zeros(n) == [i \in 1..n |-> Literal(0)]

\* keccak256, and the 32 bytes of an H256.
Keccak256(data) == [keccak256 |-> data]
HashBytes(hash) == [i \in 1..32 |-> [source |-> hash, value |-> i]]

\* Address::as_bytes: the 20 bytes of an H160.
AddressBytes(addr) ==
    IF addr = "zero" THEN Zeros(20)
    ELSE [i \in 1..20 |-> [source |-> addr, value |-> i]]

\* The four low bytes of a value below 2^31, most significant first.
LowBytes(value) ==
    <<Literal((value \div 16777216) % 256), Literal((value \div 65536) % 256),
      Literal((value \div 256) % 256), Literal(value % 256)>>

\* u256_to_bytes32: big-endian, for a value below 2^31.
U256ToBytes32(value) == Zeros(28) \o LowBytes(value)

\* address_to_bytes32: bytes[12..] are the address.
AddressToBytes32(addr) == Zeros(12) \o AddressBytes(addr)

\* u8_to_bytes32: bytes[31] is the value.
U8ToBytes32(value) == Zeros(31) \o <<Literal(value)>>

\* EIP712Domain::new
EIP712DomainNew(is_negrisk) ==
    [name |-> "Polymarket CTF Exchange",
     version |-> "1",
     chain_id |-> CHAIN_ID,
     verifying_contract |-> IF is_negrisk THEN NEGRISK_CTF_EXCHANGE ELSE CTF_EXCHANGE]

\* The data EIP712Domain::separator_hash hashes.
DomainData(domain) ==
    HashBytes(Keccak256("EIP712Domain(string name,string version,uint256 chainId,address verifyingContract)"))
    \o HashBytes(Keccak256(domain.name))
    \o HashBytes(Keccak256(domain.version))
    \o U256ToBytes32(domain.chain_id)
    \o AddressBytes(domain.verifying_contract)

\* EIP712Domain::separator_hash
SeparatorHash(domain) == Keccak256(DomainData(domain))

\* Side and SignatureType as u8.
SideAsU8(side) == IF side = "Buy" THEN 0 ELSE 1
Eoa == 0

\* The order_data sign_order hashes.
OrderData(order) ==
    HashBytes(Keccak256("Order(uint256 salt,address maker,address signer,address taker,uint256 tokenId,uint256 makerAmount,uint256 takerAmount,uint256 expiration,uint256 nonce,uint256 feeRateBps,uint8 side,uint8 signatureType)"))
    \o U256ToBytes32(order.salt)
    \o AddressToBytes32(order.maker)
    \o AddressToBytes32(order.signer)
    \o AddressToBytes32(order.taker)
    \o U256ToBytes32(order.token_id)
    \o U256ToBytes32(order.maker_amount)
    \o U256ToBytes32(order.taker_amount)
    \o U256ToBytes32(order.expiration)
    \o U256ToBytes32(order.nonce)
    \o U256ToBytes32(order.fee_rate_bps)
    \o U8ToBytes32(SideAsU8(order.side))
    \o U8ToBytes32(order.signature_type)

\* PolymarketSigner::sign_order: the signature of the wallet over the
\* message hash.  The message is 0x19 0x01, the 32 bytes of the domain
\* separator and the 32 bytes of the struct hash; the two hashes stand for
\* their bytes.
SignOrder(is_negrisk, order) ==
    LET domain == EIP712DomainNew(is_negrisk)
        domain_separator == SeparatorHash(domain)
        order_data == OrderData(order)
        struct_hash == Keccak256(order_data)
        message == [prefix |-> <<Literal(25), Literal(1)>>,
                    domain_separator |-> domain_separator,
                    struct_hash |-> struct_hash]
    IN  [wallet |-> "wallet", message_hash |-> Keccak256(message)]

\* str::strip_prefix("0x").unwrap_or(token_id)
StripPrefix0x(str) ==
    IF Len(str) >= 2 /\ SubSeq(str, 1, 2) = <<"0", "x">>
    THEN SubSeq(str, 3, Len(str)) ELSE str

HexDigits == <<"0", "1", "2", "3", "4", "5", "6", "7", "8", "9",
               "a", "b", "c", "d", "e", "f">>
IsHexDigit(c) == \E i \in DOMAIN HexDigits : HexDigits[i] = c
HexValue(c) == (CHOOSE i \in DOMAIN HexDigits : HexDigits[i] = c) - 1

RECURSIVE HexNumber(_)
HexNumber(str) ==
    IF str = <<>> THEN 0
    ELSE 16 * HexNumber(SubSeq(str, 1, Len(str) - 1)) + HexValue(str[Len(str)])

\* U256::from_str_radix(str, 16): an empty string or a character that is
\* no hex digit is an error.
FromStrRadix16(str) ==
    IF str = <<>> \/ \E i \in DOMAIN str : ~IsHexDigit(str[i]) THEN None
    ELSE Some(HexNumber(str))

\* str::parse::<u128>: digits only; a sign '-' or a point is an error.
ParseU128(str) ==
    IF str.point \/ str.neg THEN None ELSE Some(str.whole)

UnwrapOr(o, default) == IF o = None THEN default ELSE Unwrap(o)

\* (price * size * Decimal::from(1_000_000)).to_string().parse::<u128>().unwrap_or(0)
UsdcAmount(price, size) ==
    UnwrapOr(ParseU128(DecToString(DecMul(DecMul(price, size), Dec(1000000, 0)))), 0)

\* (size * Decimal::from(1_000_000)).to_string().parse::<u128>().unwrap_or(0)
TokenAmount(size) ==
    UnwrapOr(ParseU128(DecToString(DecMul(size, Dec(1000000, 0)))), 0)

\* The Order create_limit_order builds with the nonce it is handed.
OrderOf(token_id, price, size, side, salt, expiration, nonce) ==
    [salt |-> salt,
     maker |-> "wallet",
     signer |-> "wallet",
     taker |-> "zero",
     token_id |-> token_id,
     maker_amount |-> IF side = "Buy" THEN UsdcAmount(price, size) ELSE TokenAmount(size),
     taker_amount |-> IF side = "Buy" THEN TokenAmount(size) ELSE UsdcAmount(price, size),
     expiration |-> expiration,
     nonce |-> nonce,
     fee_rate_bps |-> 0,
     side |-> side,
     signature_type |-> Eoa]

\* The SignedOrder create_limit_order returns.
SignedOrderOf(is_negrisk, order) ==
    [order |-> order, signature |-> SignOrder(is_negrisk, order)]

\* A mutant of FetchAdd: the counter is left as it was.
FetchAddNothing(value) == value

\* AtomicU64::fetch_add(1): the value stored (the value held before is
\* returned).  The counter stays below MaxNonce, far from the u64 wrap.
FetchAdd(value) == value + 1

\* The token ids: "0x1f", "1f", "zz".
TokenIds == {<<"0", "x", "1", "f">>, <<"1", "f">>, <<"z", "z">>}

\* The price and size of the orders.
OrderQuotes ==
    {<<Dec(475, 3), Dec(4, 0)>>, <<Dec(5, 1), Dec(10, 0)>>,
     <<Dec(1, 0), Dec(10, 0)>>, <<Dec(1, 0), Dec(15, 1)>>}
OrderSides == {"Buy", "Sell"}

\* generate_salt and SystemTime::now are read from the clock.
Salts == {7, 8}
Clock == {1000}
ExpirationSecs == {60}

\* The nonces set_nonce is given.
Nonces == 0..(MaxNonce - 1)

InitSignerWith ==
    /\ books = EmptyBooks
    /\ call = Idle
    /\ graph = EmptyGraph
    /\ min_edge_bps = DefaultMinEdgeBps
    /\ InitThreads
    /\ InitMiner
    /\ signer \in {NewSigner(is_negrisk) : is_negrisk \in BOOLEAN}
    /\ tasks = [t \in SignerThreads |-> TaskIdle]
    /\ issued = <<>>

\* PolymarketSigner::create_limit_order
CreateLimitOrder(token_id, price, size, side, expiration_secs, salt, current_time) ==
    LET token_id_u256 == FromStrRadix16(StripPrefix0x(token_id))
        order == OrderOf(Unwrap(token_id_u256), price, size, side, salt,
                         current_time + expiration_secs, signer.nonce)
    IN  IF token_id_u256 = None
        THEN /\ call' = [op |-> "create_limit_order", token_id |-> token_id,
                         price |-> price, size |-> size, side |-> side,
                         error |-> "InvalidTokenId", result |-> None]
             /\ UNCHANGED signer
        ELSE /\ signer' = [signer EXCEPT !.nonce = FetchAdd(@)]
             /\ call' = [op |-> "create_limit_order", token_id |-> token_id,
                         price |-> price, size |-> size, side |-> side,
                         error |-> "",
                         result |-> Some(SignedOrderOf(signer.is_negrisk, order))]

\* PolymarketSigner::cancel_all_orders
CancelAllOrders ==
    /\ signer' = [signer EXCEPT !.nonce = FetchAdd(@)]
    /\ call' = [op |-> "cancel_all_orders", result |-> signer.nonce]

\* PolymarketSigner::set_nonce
SetNonce(nonce) ==
    /\ signer' = [signer EXCEPT !.nonce = nonce]
    /\ call' = [op |-> "set_nonce", nonce |-> nonce, result |-> None]

CallCreateLimitOrder ==
    /\ call = Idle
    /\ signer.nonce < MaxNonce
    /\ \E token_id \in TokenIds, quote \in OrderQuotes, side \in OrderSides,
          expiration_secs \in ExpirationSecs, salt \in Salts, current_time \in Clock :
          CreateLimitOrder(token_id, quote[1], quote[2], side, expiration_secs,
                           salt, current_time)
    /\ UNCHANGED <<books, graphVars, concVars, minerVars, tasks, issued>>

CallCancelAllOrders ==
    /\ call = Idle
    /\ signer.nonce < MaxNonce
    /\ CancelAllOrders
    /\ UNCHANGED <<books, graphVars, concVars, minerVars, tasks, issued>>

CallSetNonce ==
    /\ call = Idle
    /\ \E nonce \in Nonces : SetNonce(nonce)
    /\ UNCHANGED <<books, graphVars, concVars, minerVars, tasks, issued>>

NextSigner ==
    \/ CallCreateLimitOrder
    \/ CallCancelAllOrders
    \/ CallSetNonce
    \/ Return

SpecSigner == InitSignerWith /\ [][NextSigner]_vars

\* ------------------------------------------------------------------------
\* The signer shared by threads.  A step of a thread runs up to its next
\* access to the atomic nonce.  issued records every call, every nonce
\* handed out and every return, each with the number of its call.
\* ------------------------------------------------------------------------

\* At most MaxCalls calls are made on the shared signer.
MaxCalls == 3

\* The token ids ("0x1f", "zz") and the nonces the threads pass.
TaskTokenIds == {<<"0", "x", "1", "f">>, <<"z", "z">>}
TaskNonces == {0, MaxNonce - 1}

Calls == {i \in DOMAIN issued : issued[i].kind \in {"call", "set"}}
Event(kind, id, thread, op, nonce) ==
    [kind |-> kind, id |-> id, thread |-> thread, op |-> op, nonce |-> nonce]

\* create_limit_order up to next_nonce: the token id is parsed and the
\* amounts are computed; a token id that does not parse ends the call.
TaskCreate(t, token_id) ==
    LET id == Cardinality(Calls) + 1
        token_id_u256 == FromStrRadix16(StripPrefix0x(token_id))
    IN  /\ tasks[t].pc = "idle"
        /\ Cardinality(Calls) < MaxCalls
        /\ tasks' = [tasks EXCEPT ![t] =
               IF token_id_u256 = None
               THEN [pc |-> "done", op |-> "create_limit_order", id |-> id,
                     token_id |-> 0, nonce |-> 0, result |-> None]
               ELSE [pc |-> "next_nonce", op |-> "create_limit_order", id |-> id,
                     token_id |-> Unwrap(token_id_u256), nonce |-> 0,
                     result |-> None]]
        /\ issued' = Append(issued, Event("call", id, t, "create_limit_order", 0))
        /\ UNCHANGED <<books, call, graphVars, concVars, minerVars, signer>>

\* cancel_all_orders up to next_nonce
TaskCancel(t) ==
    LET id == Cardinality(Calls) + 1
    IN  /\ tasks[t].pc = "idle"
        /\ Cardinality(Calls) < MaxCalls
        /\ tasks' = [tasks EXCEPT ![t] =
               [pc |-> "next_nonce", op |-> "cancel_all_orders", id |-> id,
                token_id |-> 0, nonce |-> 0, result |-> None]]
        /\ issued' = Append(issued, Event("call", id, t, "cancel_all_orders", 0))
        /\ UNCHANGED <<books, call, graphVars, concVars, minerVars, signer>>

\* next_nonce: one atomic fetch_add
TaskNextNonce(t) ==
    /\ tasks[t].pc = "next_nonce"
    /\ signer' = [signer EXCEPT !.nonce = FetchAdd(@)]
    /\ tasks' = [tasks EXCEPT ![t].nonce = signer.nonce,
                              ![t].pc = IF tasks[t].op = "create_limit_order"
                                        THEN "sign_order" ELSE "done"]
    /\ issued' = Append(issued, Event("nonce", tasks[t].id, t, tasks[t].op, signer.nonce))
    /\ UNCHANGED <<books, call, graphVars, concVars, minerVars>>

\* create_limit_order from next_nonce on: the order is built and signed.
\* The signature is SignOrder of the order and touches no shared state; the
\* result kept here is the order.
TaskSignOrder(t) ==
    /\ tasks[t].pc = "sign_order"
    /\ \E salt \in Salts, current_time \in Clock, expiration_secs \in ExpirationSecs :
          tasks' = [tasks EXCEPT
              ![t].pc = "done",
              ![t].result = Some(OrderOf(tasks[t].token_id, Dec(1, 0), Dec(10, 0),
                                         "Buy", salt, current_time + expiration_secs,
                                         tasks[t].nonce))]
    /\ UNCHANGED <<books, call, graphVars, concVars, minerVars, signer, issued>>

\* The call returns to its caller.
TaskReturn(t) ==
    /\ tasks[t].pc = "done"
    /\ tasks' = [tasks EXCEPT ![t] = TaskIdle]
    /\ issued' = Append(issued, Event("return", tasks[t].id, t, tasks[t].op, tasks[t].nonce))
    /\ UNCHANGED <<books, call, graphVars, concVars, minerVars, signer>>

\* set_nonce: one atomic store
TaskSetNonce(t, nonce) ==
    /\ tasks[t].pc = "idle"
    /\ Cardinality(Calls) < MaxCalls
    /\ signer' = [signer EXCEPT !.nonce = nonce]
    /\ issued' = Append(issued, Event("set", Cardinality(Calls) + 1, t, "set_nonce", nonce))
    /\ UNCHANGED <<books, call, graphVars, concVars, minerVars, tasks>>

NextNonce ==
    \E t \in SignerThreads :
        \/ \E token_id \in TaskTokenIds : TaskCreate(t, token_id)
        \/ TaskCancel(t)
        \/ TaskNextNonce(t)
        \/ TaskSignOrder(t)
        \/ TaskReturn(t)
        \/ \E nonce \in TaskNonces : TaskSetNonce(t, nonce)

SpecNonce == Init /\ [][NextNonce]_vars

\* ------------------------------------------------------------------------
\* The manager shared by threads.  A step of a thread runs from one lock
\* acquisition up to the next: it is enabled when the lock can be taken, and
\* it releases what the code releases before the next acquisition.
\* ------------------------------------------------------------------------

\* At most MaxArcs books are ever allocated.
MaxArcs == 2

\* The snapshots and deltas the threads send for the one token they share.
ConcSnapshots ==
    {[token_id |-> "A", bids |-> <<Level(Dec(20, 2), Dec(5, 0))>>,
      asks |-> <<Level(Dec(60, 2), Dec(5, 0))>>,
      timestamp |-> 0, sequence |-> 0],
     [token_id |-> "A",
      bids |-> <<Level(Dec(30, 2), Dec(5, 0)), Level(Dec(30, 2), Dec(3, 0))>>,
      asks |-> <<>>,
      timestamp |-> 0, sequence |-> 1]}

ConcDeltas ==
    {[token_id |-> "A",
      bid_updates |-> <<Level(Dec(40, 2), Dec(5, 0))>>,
      ask_updates |-> <<Level(Dec(50, 2), Dec(5, 0))>>,
      timestamp |-> 1, sequence |-> q] : q \in {1, 2}}

\* The reads of one book through an Arc from OrderBookManager::get:
\* OrderBook::mid_price, spread, spread_exceeds_bps and the best bid / best
\* ask read of NegRiskMiner::check_market.
ReadOps == {"mid_price", "spread", "spread_exceeds_bps", "check_market"}

\* The reads that keep the read guard of bids while they read asks.
HoldingOps == {"spread_exceeds_bps", "find_wide_spread_markets"}

ConcThresholds == {10000}

\* (best bid, best ask) of a book
Tops(book) == <<BestPrice(book.bids, TRUE), BestPrice(book.asks, FALSE)>>

\* Arc::new(OrderBook)
NewArc(book) ==
    [book |-> book,
     locks |-> [bids |-> FreeLock, asks |-> FreeLock,
                last_update_ts |-> FreeLock, sequence_number |-> FreeLock],
     versions |-> {Tops(book)},
     states |-> {Tops(book)}]

Running(op, pc, arg, arc, saw) ==
    [pc |-> pc, op |-> op, arg |-> arg, arc |-> arc, saw |-> saw, result |-> <<>>]
Done(op, arg, arc, saw, result) ==
    [pc |-> "done", op |-> op, arg |-> arg, arc |-> arc, saw |-> saw,
     result |-> <<result>>]

ReadLock(lock, t) == [lock EXCEPT !.readers = @ \cup {t}]
ReadUnlock(lock, t) == [lock EXCEPT !.readers = @ \ {t}]

\* OrderBookManager::load_snapshot: the book is built, then put in the map
\* under the shard's write lock.
ConcLoadSnapshot(t, snapshot) ==
    /\ threads[t].pc = "idle"
    /\ Len(heap) < MaxArcs
    /\ CanWrite(shard)
    /\ heap' = Append(heap, NewArc(FromSnapshot(snapshot)))
    /\ entries' = BooksInsert(entries, snapshot.token_id, Len(heap) + 1)
    /\ threads' = [threads EXCEPT ![t] =
                      Done("load_snapshot", <<snapshot>>, Len(heap) + 1, <<>>, "Ok")]
    /\ UNCHANGED <<shard, books, call, graphVars, minerVars, signerVars>>

\* OrderBookManager::apply_delta, the lookup: the map's guard on the entry
\* (a read lock of the shard) is kept until the book's apply_delta returns.
\* `saw` keeps the book as the call found it (history only: no step reads it).
ConcApplyDelta(t, delta) ==
    /\ threads[t].pc = "idle"
    /\ CanRead(shard)
    /\ IF delta.token_id \notin DOMAIN entries
       THEN /\ threads' = [threads EXCEPT ![t] =
                              Done("apply_delta", <<delta>>, 0, <<>>, "TokenNotFound")]
            /\ shard' = shard
       ELSE /\ threads' = [threads EXCEPT ![t] =
                              Running("apply_delta", "sequence_number", <<delta>>,
                                      entries[delta.token_id],
                                      <<heap[entries[delta.token_id]].book>>)]
            /\ shard' = ReadLock(shard, t)
    /\ UNCHANGED <<heap, entries, books, call, graphVars, minerVars, signerVars>>

\* OrderBook::apply_delta with the guard of sequence_number dropped after
\* the tests instead of kept to the return.
LockSequenceDropped(t) ==
    LET arc == threads[t].arc
        delta == Unwrap(threads[t].arg)
        fails(result) ==
            /\ threads' = [threads EXCEPT ![t] =
                              Done("apply_delta", <<delta>>, arc, threads[t].saw, result)]
            /\ shard' = ReadUnlock(shard, t)
    IN  /\ threads[t].pc = "sequence_number"
        /\ CanWrite(heap[arc].locks.sequence_number)
        /\ IF delta.sequence <= heap[arc].book.sequence_number
           THEN fails("StaleUpdate")
           ELSE IF delta.sequence > heap[arc].book.sequence_number + 1
           THEN fails("SequenceGap")
           ELSE /\ threads' = [threads EXCEPT ![t].pc = "bids"]
                /\ shard' = shard
        /\ UNCHANGED <<heap, entries, books, call, graphVars, minerVars, signerVars>>

\* OrderBook::apply_delta, from the write lock of sequence_number to the
\* write lock of bids: the stale and the gap test.
LockSequence(t) ==
    LET arc == threads[t].arc
        delta == Unwrap(threads[t].arg)
        fails(result) ==
            /\ threads' = [threads EXCEPT ![t] =
                              Done("apply_delta", <<delta>>, arc, threads[t].saw, result)]
            /\ shard' = ReadUnlock(shard, t)
            /\ heap' = heap
    IN  /\ threads[t].pc = "sequence_number"
        /\ CanWrite(heap[arc].locks.sequence_number)
        /\ IF delta.sequence <= heap[arc].book.sequence_number
           THEN fails("StaleUpdate")
           ELSE IF delta.sequence > heap[arc].book.sequence_number + 1
           THEN fails("SequenceGap")
           ELSE /\ heap' = [heap EXCEPT ![arc].locks.sequence_number.writer = Some(t)]
                /\ threads' = [threads EXCEPT ![t].pc = "bids"]
                /\ shard' = shard
        /\ UNCHANGED <<entries, books, call, graphVars, minerVars, signerVars>>

\* OrderBook::apply_delta, the block under the write lock of bids.
WriteBids(t) ==
    LET arc == threads[t].arc
        delta == Unwrap(threads[t].arg)
        bids == ApplyUpdates(heap[arc].book.bids, delta.bid_updates)
    IN  /\ threads[t].pc = "bids"
        /\ CanWrite(heap[arc].locks.bids)
        /\ heap' = [heap EXCEPT
                      ![arc].book.bids = bids,
                      ![arc].states =
                          @ \cup {<<BestPrice(bids, TRUE),
                                    BestPrice(heap[arc].book.asks, FALSE)>>}]
        /\ threads' = [threads EXCEPT ![t].pc = "asks"]
        /\ UNCHANGED <<entries, shard, books, call, graphVars, minerVars, signerVars>>

\* OrderBook::apply_delta, the block under the write lock of asks, and the
\* store to the sequence number.
WriteAsks(t) ==
    LET arc == threads[t].arc
        delta == Unwrap(threads[t].arg)
        asks == ApplyUpdates(heap[arc].book.asks, delta.ask_updates)
        tops == <<BestPrice(heap[arc].book.bids, TRUE), BestPrice(asks, FALSE)>>
    IN  /\ threads[t].pc = "asks"
        /\ CanWrite(heap[arc].locks.asks)
        /\ heap' = [heap EXCEPT
                      ![arc].book.asks = asks,
                      ![arc].book.sequence_number = delta.sequence,
                      ![arc].versions = @ \cup {tops},
                      ![arc].states = @ \cup {tops}]
        /\ threads' = [threads EXCEPT ![t].pc = "last_update_ts"]
        /\ UNCHANGED <<entries, shard, books, call, graphVars, minerVars, signerVars>>

\* OrderBook::apply_delta returning with the guard of sequence_number kept.
WriteTimestampKept(t) ==
    LET arc == threads[t].arc
        delta == Unwrap(threads[t].arg)
    IN  /\ threads[t].pc = "last_update_ts"
        /\ CanWrite(heap[arc].locks.last_update_ts)
        /\ heap' = [heap EXCEPT ![arc].book.last_update_ts = delta.timestamp]
        /\ shard' = ReadUnlock(shard, t)
        /\ threads' = [threads EXCEPT ![t] =
                          Done("apply_delta", <<delta>>, arc, threads[t].saw, "Ok")]
        /\ UNCHANGED <<entries, books, call, graphVars, minerVars, signerVars>>

\* OrderBook::apply_delta, the store to last_update_ts under its write lock,
\* and the return, which drops the guard of sequence_number and the map's.
WriteTimestamp(t) ==
    LET arc == threads[t].arc
        delta == Unwrap(threads[t].arg)
    IN  /\ threads[t].pc = "last_update_ts"
        /\ CanWrite(heap[arc].locks.last_update_ts)
        /\ heap' = [heap EXCEPT
                      ![arc].book.last_update_ts = delta.timestamp,
                      ![arc].locks.sequence_number.writer = None]
        /\ shard' = ReadUnlock(shard, t)
        /\ threads' = [threads EXCEPT ![t] =
                          Done("apply_delta", <<delta>>, arc, threads[t].saw, "Ok")]
        /\ UNCHANGED <<entries, books, call, graphVars, minerVars, signerVars>>

\* OrderBookManager::get, then a read of the book it returns.
ConcRead(t, op, threshold_bps) ==
    /\ threads[t].pc = "idle"
    /\ CanRead(shard)
    /\ threads' = [threads EXCEPT ![t] =
          IF "A" \notin DOMAIN entries
          THEN Done(op, <<threshold_bps>>, 0, <<>>, None)
          ELSE Running(op, "read_bids", <<threshold_bps>>, entries["A"], <<>>)]
    /\ UNCHANGED <<heap, entries, shard, books, call, graphVars, minerVars, signerVars>>

\* OrderBookManager::find_wide_spread_markets: the iterator keeps a read lock
\* of the shard while spread_exceeds_bps runs on the entry.
ConcFindWideSpreadMarkets(t, min_spread_bps) ==
    /\ threads[t].pc = "idle"
    /\ CanRead(shard)
    /\ IF "A" \notin DOMAIN entries
       THEN /\ threads' = [threads EXCEPT ![t] =
                  Done("find_wide_spread_markets", <<min_spread_bps>>, 0, <<>>, <<>>)]
            /\ shard' = shard
       ELSE /\ threads' = [threads EXCEPT ![t] =
                  Running("find_wide_spread_markets", "read_bids",
                          <<min_spread_bps>>, entries["A"], <<>>)]
            /\ shard' = ReadLock(shard, t)
    /\ UNCHANGED <<heap, entries, books, call, graphVars, minerVars, signerVars>>

\* self.bids.read().best_price(true).  mid_price and spread return None on
\* an empty side; the guard is a temporary of the statement, except in
\* spread_exceeds_bps, where it lives to the end of the if let.
ReadBids(t) ==
    LET arc == threads[t].arc
        op == threads[t].op
        best_bid == BestPrice(heap[arc].book.bids, TRUE)
    IN  /\ threads[t].pc = "read_bids"
        /\ CanRead(heap[arc].locks.bids)
        /\ IF op \in {"mid_price", "spread"} /\ best_bid = None
           THEN /\ threads' = [threads EXCEPT ![t] =
                      Done(op, threads[t].arg, arc, <<best_bid>>, None)]
                /\ heap' = heap
           ELSE /\ threads' = [threads EXCEPT ![t].pc = "read_asks",
                                              ![t].saw = <<best_bid>>]
                /\ heap' = IF op \in HoldingOps
                           THEN [heap EXCEPT ![arc].locks.bids = ReadLock(@, t)]
                           ELSE heap
        /\ UNCHANGED <<entries, shard, books, call, graphVars, minerVars, signerVars>>

\* self.asks.read().best_price(false), and the rest of the read.
ReadAsks(t) ==
    LET arc == threads[t].arc
        op == threads[t].op
        best_bid == threads[t].saw[1]
        best_ask == BestPrice(heap[arc].book.asks, FALSE)
        threshold_bps == Unwrap(threads[t].arg)
        result ==
            CASE op = "mid_price" -> MidPrice(best_bid, best_ask)
              [] op = "spread" -> Spread(best_bid, best_ask)
              [] op = "check_market" -> <<best_bid, best_ask>>
              [] op = "spread_exceeds_bps" ->
                     ExceedsBps(best_bid, best_ask, threshold_bps)
              [] op = "find_wide_spread_markets" ->
                     IF ExceedsBps(best_bid, best_ask, threshold_bps)
                     THEN <<"A">> ELSE <<>>
    IN  /\ threads[t].pc = "read_asks"
        /\ CanRead(heap[arc].locks.asks)
        /\ threads' = [threads EXCEPT ![t] =
              Done(op, threads[t].arg, arc, <<best_bid, best_ask>>, result)]
        /\ heap' = IF op \in HoldingOps
                   THEN [heap EXCEPT ![arc].locks.bids = ReadUnlock(@, t)]
                   ELSE heap
        /\ shard' = IF op = "find_wide_spread_markets"
                    THEN ReadUnlock(shard, t) ELSE shard
        /\ UNCHANGED <<entries, books, call, graphVars, minerVars, signerVars>>

\* The caller takes the result.
ThreadReturn(t) ==
    /\ threads[t].pc = "done"
    /\ threads' = [threads EXCEPT ![t] = ThreadIdle]
    /\ UNCHANGED <<heap, entries, shard, books, call, graphVars, minerVars, signerVars>>

NextConc ==
    \/ \E t \in Writers, snapshot \in ConcSnapshots : ConcLoadSnapshot(t, snapshot)
    \/ \E t \in Writers, delta \in ConcDeltas : ConcApplyDelta(t, delta)
    \/ \E t \in Threads : LockSequence(t)
    \/ \E t \in Threads : WriteBids(t)
    \/ \E t \in Threads : WriteAsks(t)
    \/ \E t \in Threads : WriteTimestamp(t)
    \/ \E t \in Readers, op \in ReadOps, threshold_bps \in ConcThresholds :
          ConcRead(t, op, threshold_bps)
    \/ \E t \in Readers, min_spread_bps \in ConcThresholds :
          ConcFindWideSpreadMarkets(t, min_spread_bps)
    \/ \E t \in Threads : ReadBids(t)
    \/ \E t \in Threads : ReadAsks(t)
    \/ \E t \in Threads : ThreadReturn(t)

SpecConc == Init /\ [][NextConc]_vars

\* Two threads that both send deltas to the one book: the deltas of
\* ConcDeltas, and deltas with the same sequence numbers that change the
\* sides differently (the bid of the first snapshot removed, another ask).
RaceDeltas ==
    ConcDeltas \cup
    {[token_id |-> "A",
      bid_updates |-> <<Level(Dec(20, 2), Dec(0, 0))>>,
      ask_updates |-> <<Level(Dec(55, 2), Dec(3, 0))>>,
      timestamp |-> 2, sequence |-> q] : q \in {1, 2}}

NextRace ==
    \/ \E t \in Writers, snapshot \in ConcSnapshots : ConcLoadSnapshot(t, snapshot)
    \/ \E t \in Threads, delta \in RaceDeltas : ConcApplyDelta(t, delta)
    \/ \E t \in Threads : LockSequence(t)
    \/ \E t \in Threads : WriteBids(t)
    \/ \E t \in Threads : WriteAsks(t)
    \/ \E t \in Threads : WriteTimestamp(t)
    \/ \E t \in Threads : ThreadReturn(t)

SpecRace == Init /\ [][NextRace]_vars

\* The manager with every operation open to every thread, and load_snapshot
\* in its two parts: the call, which builds the book, and the insert, which
\* waits for the write lock of the shard.
BeginLoadSnapshot(t, snapshot) ==
    /\ threads[t].pc = "idle"
    /\ Len(heap) + Cardinality({u \in Threads : threads[u].pc = "shard"}) < MaxArcs
    /\ threads' = [threads EXCEPT ![t] =
                      Running("load_snapshot", "shard", <<snapshot>>, 0, <<>>)]
    /\ UNCHANGED <<heap, entries, shard, books, call, graphVars, minerVars, signerVars>>

\* DashMap::insert under the write lock of the shard.
ShardInsert(t) ==
    LET snapshot == Unwrap(threads[t].arg)
    IN  /\ threads[t].pc = "shard"
        /\ CanWrite(shard)
        /\ heap' = Append(heap, NewArc(FromSnapshot(snapshot)))
        /\ entries' = BooksInsert(entries, snapshot.token_id, Len(heap) + 1)
        /\ threads' = [threads EXCEPT ![t] =
                          Done("load_snapshot", <<snapshot>>, Len(heap) + 1, <<>>, "Ok")]
        /\ UNCHANGED <<shard, books, call, graphVars, minerVars, signerVars>>

\* The reads the threads make: one that drops the guard of bids before it
\* reads asks, one that keeps it.
LiveReadOps == {"mid_price", "spread_exceeds_bps"}

\* The snapshots and deltas the threads send.  Which locks a call takes
\* depends on the levels only through an empty bid side (mid_price and spread
\* return before they read asks), so the bids are empty or not and the asks
\* stay empty.
LiveSnapshots ==
    {[token_id |-> "A", bids |-> bids, asks |-> <<>>,
      timestamp |-> 0, sequence |-> 0] :
        bids \in {<<>>, <<Level(Dec(20, 2), Dec(5, 0))>>}}

LiveDeltas ==
    {[token_id |-> "A",
      bid_updates |-> <<Level(Dec(20, 2), Dec(5, 0))>>,
      ask_updates |-> <<>>,
      timestamp |-> 1, sequence |-> 1]}

\* The steps of thread t inside a call: each waits for the lock it takes.
Finish(t) ==
    \/ ShardInsert(t)
    \/ LockSequence(t)
    \/ WriteBids(t)
    \/ WriteAsks(t)
    \/ WriteTimestamp(t)
    \/ ReadBids(t)
    \/ ReadAsks(t)

NextLive ==
    \/ \E t \in Threads, snapshot \in LiveSnapshots : BeginLoadSnapshot(t, snapshot)
    \/ \E t \in Threads, delta \in LiveDeltas : ConcApplyDelta(t, delta)
    \/ \E t \in Threads, op \in LiveReadOps, threshold_bps \in ConcThresholds :
          ConcRead(t, op, threshold_bps)
    \/ \E t \in Threads, min_spread_bps \in ConcThresholds :
          ConcFindWideSpreadMarkets(t, min_spread_bps)
    \/ \E t \in Threads : ShardInsert(t)
    \/ \E t \in Threads : LockSequence(t)
    \/ \E t \in Threads : WriteBids(t)
    \/ \E t \in Threads : WriteAsks(t)
    \/ \E t \in Threads : WriteTimestamp(t)
    \/ \E t \in Threads : ReadBids(t)
    \/ \E t \in Threads : ReadAsks(t)
    \/ \E t \in Threads : ThreadReturn(t)

\* A thread inside a call keeps running, and a lock that is free again and
\* again is granted to the thread that waits for it.
SpecLive ==
    /\ Init
    /\ [][NextLive]_vars
    /\ \A t \in Threads : SF_vars(Finish(t))

\* ------------------------------------------------------------------------
\* Claims on the order book and its manager
\* ------------------------------------------------------------------------

IsApplyDelta == call.op = "apply_delta"
IsLoadSnapshot == call.op = "load_snapshot"

\* The book the last apply_delta was routed to, as it was before the call.
HadBook == call.token_id \in DOMAIN call.before
BookBefore == call.before[call.token_id]
BookAfter == books[call.token_id]

\* The levels of a side, and of a list of levels, as sets of (price, size).
LevelSet(levels) == {[price |-> k, size |-> levels[k]] : k \in DOMAIN levels}
ListSet(list) == {[price |-> list[i].price, size |-> list[i].size] : i \in DOMAIN list}

HasNonZero(list) == \E i \in DOMAIN list : ~IsZero(list[i].size)

\* The places of `list` that name `price`, and the size of the last of them.
Places(list, price) == {i \in DOMAIN list : DecEq(list[i].price, price)}
LastSize(list, price) ==
    list[CHOOSE i \in Places(list, price) : \A j \in Places(list, price) : j <= i].size

\* C1: a delta whose sequence is beyond current + 1 returns SequenceGap and
\* leaves bids, asks, sequence_number and last_update_ts of the book (and the
\* whole manager) as they were.
C1_SequenceGap ==
    (IsApplyDelta /\ HadBook
        /\ call.delta.sequence > BookBefore.sequence_number + 1)
    => (call.result = "SequenceGap" /\ books = call.before)

\* C1 witness: a gap delta carrying a non-zero update was refused.
C1_Witness ==
    /\ IsApplyDelta /\ HadBook
    /\ call.delta.sequence > BookBefore.sequence_number + 1
    /\ call.result = "SequenceGap"
    /\ HasNonZero(call.delta.bid_updates)
    /\ DOMAIN BookBefore.bids # {}

\* C2: a delta whose sequence is at most the current one returns StaleUpdate
\* and leaves the book (and the whole manager) as it was.
C2_StaleUpdate ==
    (IsApplyDelta /\ HadBook
        /\ call.delta.sequence <= BookBefore.sequence_number)
    => (call.result = "StaleUpdate" /\ books = call.before)

\* C2 witness: a delta at exactly the current sequence, carrying a non-zero
\* update and another timestamp, was refused.
C2_Witness ==
    /\ IsApplyDelta /\ HadBook
    /\ call.delta.sequence = BookBefore.sequence_number
    /\ call.result = "StaleUpdate"
    /\ HasNonZero(call.delta.ask_updates)
    /\ call.delta.timestamp # BookBefore.last_update_ts

\* What a side must hold once a list of updates is applied in order: a price
\* no update names keeps its size; a price some update names takes the size of
\* the last update naming it, and is absent when that size is 0.
ExpectedSide(levels, updates) ==
    LET named(k) == Places(updates, k) # {}
        kept == {k \in DOMAIN levels : ~named(k) \/ ~IsZero(LastSize(updates, k))}
        new  == {updates[i].price : i \in {j \in DOMAIN updates :
                     /\ KeysEq(levels, updates[j].price) = {}
                     /\ ~IsZero(LastSize(updates, updates[j].price))}}
    IN  [k \in kept \cup new |->
            IF named(k) THEN LastSize(updates, k) ELSE levels[k]]

\* C3: a delta with sequence = current + 1 succeeds, applies every bid and
\* every ask update, raises sequence_number by exactly one and sets
\* last_update_ts to the delta's timestamp; and a delta is applied only then,
\* so the sequence number strictly increases across applied deltas.
C3_ApplyInOrder ==
    (IsApplyDelta /\ HadBook) =>
        /\ (call.delta.sequence = BookBefore.sequence_number + 1)
               <=> (call.result = "Ok")
        /\ call.result = "Ok" =>
              /\ BookAfter.bids = ExpectedSide(BookBefore.bids, call.delta.bid_updates)
              /\ BookAfter.asks = ExpectedSide(BookBefore.asks, call.delta.ask_updates)
              /\ BookAfter.sequence_number = BookBefore.sequence_number + 1
              /\ BookAfter.sequence_number > BookBefore.sequence_number
              /\ BookAfter.last_update_ts = call.delta.timestamp

\* C3 witness: an applied delta that changed both sides and the timestamp.
C3_Witness ==
    /\ IsApplyDelta /\ HadBook
    /\ call.result = "Ok"
    /\ BookAfter.bids # BookBefore.bids
    /\ BookAfter.asks # BookBefore.asks
    /\ BookAfter.last_update_ts # BookBefore.last_update_ts
    /\ Len(call.delta.bid_updates) + Len(call.delta.ask_updates) >= 2

\* C4 (as claimed): no side of any book stores a level of size 0.
C4_NoZeroSizeLevel ==
    \A t \in DOMAIN books :
        /\ \A k \in DOMAIN books[t].bids : ~IsZero(books[t].bids[k])
        /\ \A k \in DOMAIN books[t].asks : ~IsZero(books[t].asks[k])

\* C6 (as claimed): apply_delta for a token that has no book (none was
\* made for it: no snapshot was loaded for it) returns TokenNotFound, creates
\* no book for the token and leaves every book as it was.
C6_TokenNotFound ==
    (IsApplyDelta /\ ~HadBook)
    => /\ call.result = "TokenNotFound"
       /\ call.token_id \notin DOMAIN books
       /\ books = call.before

\* A thread has read both best prices of a book and returned.
HasReadBoth(t) ==
    /\ threads[t].pc = "done"
    /\ threads[t].op \in ReadOps \cup {"find_wide_spread_markets"}
    /\ Len(threads[t].saw) = 2

\* C5 (as claimed): the best bid and the best ask a reader returns with are
\* those of the book as it stood between two deltas: never the bids after a
\* delta with the asks before it, nor the bids before with the asks after.
C5_NoTornRead ==
    \A t \in Threads :
        HasReadBoth(t) => threads[t].saw \in heap[threads[t].arc].versions

\* A step in which thread t runs load_snapshot.
LoadStep(t) ==
    /\ threads[t].pc = "idle"
    /\ threads'[t].pc = "done"
    /\ threads'[t].op = "load_snapshot"

\* What a side built from a list of levels must hold: the prices the list
\* names, each with the size of the last level naming it.
LastWins(levels, list) ==
    /\ \A k \in DOMAIN levels : Places(list, k) # {} /\ levels[k] = LastSize(list, k)
    /\ \A i \in DOMAIN list : KeysEq(levels, list[i].price) # {}

NoRepeat(list) ==
    \A i, j \in DOMAIN list : DecEq(list[i].price, list[j].price) => i = j

ExactSpreadExceeds(book, threshold_bps) ==
    LET best_bid == BestPrice(book.bids, TRUE)
        best_ask == BestPrice(book.asks, FALSE)
    IN  /\ best_bid # None
        /\ best_ask # None
        /\ LET s == Max2(Unwrap(best_bid).s, Unwrap(best_ask).s)
               b == Rescaled(Unwrap(best_bid), s)
               a == Rescaled(Unwrap(best_ask), s)
           IN  /\ a + b > 0
               /\ (a - b) * 20000 > threshold_bps * (a + b)

\* C8 (as claimed): find_wide_spread_markets returns exactly the tokens whose
\* book has both sides non-empty and a spread, relative to the mid, strictly
\* above the threshold.
C8_WideSpreadExact ==
    call.op = "find_wide_spread_markets" =>
        call.result = {t \in DOMAIN books :
                          ExactSpreadExceeds(books[t], call.min_spread_bps)}

\* A delta reverses a snapshot: it carries only updates of size 0, and one at
\* the price of every level the snapshot lists, side by side.
Reverses(delta, bids, asks) ==
    /\ \A i \in DOMAIN delta.bid_updates : IsZero(delta.bid_updates[i].size)
    /\ \A i \in DOMAIN delta.ask_updates : IsZero(delta.ask_updates[i].size)
    /\ \A i \in DOMAIN bids : Places(delta.bid_updates, bids[i].price) # {}
    /\ \A i \in DOMAIN asks : Places(delta.ask_updates, asks[i].price) # {}

\* The book is the one load_snapshot leaves for these two lists.
LoadedFrom(book, token_id, bids, asks) ==
    book = FromSnapshot([token_id |-> token_id, bids |-> bids, asks |-> asks,
                         timestamp |-> book.last_update_ts,
                         sequence |-> book.sequence_number])

BothSidesEmpty(book) ==
    /\ DOMAIN book.bids = {}
    /\ DOMAIN book.asks = {}
    /\ BestPrice(book.bids, TRUE) = None
    /\ BestPrice(book.asks, FALSE) = None
    /\ BookMidPrice(book) = None
    /\ BookSpread(book) = None

\* C9: on a book as load_snapshot(S) left it, a delta with sequence
\* S.sequence + 1 that reverses S leaves both sides empty: best bid, best ask,
\* mid and spread are absent.
C9_RoundTrip ==
    (IsApplyDelta /\ HadBook
        /\ call.delta.sequence = BookBefore.sequence_number + 1)
    => \A pair \in SidePairs(BidPrices, AskPrices, MaxLevels) :
          (/\ Reverses(call.delta, pair[1], pair[2])
           /\ LoadedFrom(BookBefore, call.delta.token_id, pair[1], pair[2]))
          => (call.result = "Ok" /\ BothSidesEmpty(BookAfter))

\* C9 witness: a snapshot with a stored level on each side was reversed.
C9_Witness ==
    /\ IsApplyDelta /\ HadBook
    /\ call.delta.sequence = BookBefore.sequence_number + 1
    /\ call.result = "Ok"
    /\ DOMAIN BookBefore.bids # {}
    /\ DOMAIN BookBefore.asks # {}
    /\ \E pair \in SidePairs(BidPrices, AskPrices, MaxLevels) :
          /\ Reverses(call.delta, pair[1], pair[2])
          /\ LoadedFrom(BookBefore, call.delta.token_id, pair[1], pair[2])
    /\ BothSidesEmpty(BookAfter)

\* ------------------------------------------------------------------------
\* Claims on the correlation scanner
\* ------------------------------------------------------------------------

\* floor((child - parent) / parent * 10000) on the exact values, parent > 0.
FloorBps(pp, cp) ==
    LET s == Max2(pp.s, cp.s)
    IN  ((Rescaled(cp, s) - Rescaled(pp, s)) * 10000) \div Rescaled(pp, s)

\* C10 (as claimed): a scan that returns lists, for every Implies edge whose
\* prices are known with child > parent > 0 and whose floored basis points
\* reach min_edge_bps, a MonotonicityViolation of that parent and child whose
\* edge_bps is floor((child - parent) / parent * 10000), and the Dutch book
\* made from it is long the parent, short the child, with that profit.
C10_EdgeBpsIsFloor ==
    (call.op = "scan_violations" /\ ~call.result.panics) =>
        \A e \in DOMAIN graph.edges :
            LET parent == graph.nodes[graph.edges[e].parent]
                child == graph.nodes[graph.edges[e].child]
            IN  (/\ graph.edges[e].relation = "Implies"
                 /\ parent.current_price # None
                 /\ child.current_price # None
                 /\ DecGt(Unwrap(parent.current_price), Dec(0, 0))
                 /\ DecGt(Unwrap(child.current_price), Unwrap(parent.current_price))
                 /\ FloorBps(Unwrap(parent.current_price),
                             Unwrap(child.current_price)) >= min_edge_bps)
                => \E i \in DOMAIN call.result.value :
                      LET v == call.result.value[i]
                          bps == FloorBps(Unwrap(parent.current_price),
                                          Unwrap(child.current_price))
                      IN  /\ v.violation_type = "MonotonicityViolation"
                          /\ v.parent_market = parent.market_id
                          /\ v.child_market = child.market_id
                          /\ v.arbitrage_edge_bps = bps
                          /\ GenerateDutchBook(graph, v) =
                                Some([long_market |-> parent.market_id,
                                      long_token_id |-> parent.token_id,
                                      short_market |-> child.market_id,
                                      short_token_id |-> child.token_id,
                                      expected_profit_bps |-> bps])

\* ------------------------------------------------------------------------
\* Claims on the correlation DAG (graph.rs)
\* ------------------------------------------------------------------------

IsDagScan == call.op = "scan"

\* The edges of the DAG that the prices of the call put below their parent.
Underpriced ==
    {e \in DOMAIN graph.edges :
        LET edge == graph.edges[e]
        IN  /\ edge.parent_id \in DOMAIN call.prices
            /\ edge.child_id \in DOMAIN call.prices
            /\ DecLt(call.prices[edge.child_id],
                     DecMul(call.prices[edge.parent_id], edge.correlation))}

\* The call is a scan of the single edge P -> C of correlation 1.0 with the
\* given prices of P and C.
SingleEdgeScan(pp, cp) ==
    /\ IsDagScan
    /\ Len(graph.edges) = 1
    /\ graph.edges[1].parent_id = "P"
    /\ graph.edges[1].child_id = "C"
    /\ DecEq(graph.edges[1].correlation, Dec(1, 0))
    /\ call.prices = ("P" :> pp) @@ ("C" :> cp)

\* C11: CorrelationDAG.scan reports an edge exactly when both prices are
\* known and child_price < parent_price * correlation, each report carrying
\* a mispricing > 0: as many violations as such edges, one for each of them,
\* in the order of the edges.  On the single edge P -> C of correlation 1.0
\* the prices P 0.50, C 0.70 give no violation and P 0.70, C 0.50 give
\* exactly one.
C11_DagScanExact ==
    IsDagScan =>
        /\ Len(call.result) = Cardinality(Underpriced)
        /\ \A e \in Underpriced : \E i \in DOMAIN call.result :
              /\ call.result[i].parent_id = graph.edges[e].parent_id
              /\ call.result[i].child_id = graph.edges[e].child_id
              /\ call.result[i].correlation = graph.edges[e].correlation
              /\ i = Cardinality({d \in Underpriced : d <= e})
        /\ \A i \in DOMAIN call.result : DecGt(call.result[i].mispricing, Dec(0, 0))
        /\ SingleEdgeScan(Dec(50, 2), Dec(70, 2)) => Len(call.result) = 0
        /\ SingleEdgeScan(Dec(70, 2), Dec(50, 2)) => Len(call.result) = 1

C11_Witness ==
    /\ SingleEdgeScan(Dec(70, 2), Dec(50, 2))
    /\ Len(call.result) = 1
    /\ DecEq(call.result[1].mispricing, Dec(20, 2))

\* ------------------------------------------------------------------------
\* More claims on the correlation scanner (graph 2.rs)
\* ------------------------------------------------------------------------

IsScan == call.op = "scan_violations"

\* The scan lists a violation of the given type for the parent and child.
Lists(violation_type, parent, child) ==
    \E i \in DOMAIN call.result.value :
        /\ call.result.value[i].violation_type = violation_type
        /\ call.result.value[i].parent_market = parent.market_id
        /\ call.result.value[i].child_market = child.market_id

\* C12 (as claimed): with no minimum edge to filter by, a scan that returns
\* lists a monotonicity (Implies) or subset (Contains) violation for an edge
\* between two markets whose prices are known exactly when
\* child_price > parent_price * weight; so an edge of weight < 1 with
\* parent_price * weight < child_price <= parent_price is listed.
C12_WeightedTrigger ==
    (IsScan /\ ~call.result.panics /\ min_edge_bps = 0) =>
        \A e \in DOMAIN graph.edges :
            LET edge == graph.edges[e]
                parent == graph.nodes[edge.parent]
                child == graph.nodes[edge.child]
            IN  (/\ edge.relation \in {"Implies", "Contains"}
                 /\ edge.parent # edge.child
                 /\ parent.current_price # None
                 /\ child.current_price # None)
                => (Lists(IF edge.relation = "Implies"
                          THEN "MonotonicityViolation" ELSE "SubsetViolation",
                          parent, child)
                    <=> DecGt(Unwrap(child.current_price),
                              DecMul(Unwrap(parent.current_price),
                                     Dec(edge.weight, 2))))

\* The children of a node: the markets its outgoing edges lead to.
ChildSet(n) == {graph.edges[e].child : e \in {d \in DOMAIN graph.edges :
                                                  graph.edges[d].parent = n}}

AllPriced(nodes) == \A c \in nodes : graph.nodes[c].current_price # None

PriceAt(c) == Unwrap(graph.nodes[c].current_price)

\* The sum of the prices of a set of priced nodes.
RECURSIVE SumOver(_)
SumOver(nodes) ==
    IF nodes = {} THEN Dec(0, 0)
    ELSE LET c == CHOOSE c \in nodes : TRUE
         IN  DecAdd(SumOver(nodes \ {c}), PriceAt(c))

\* (sum - 1) * 10000 on the exact value, rounded down.
ExcessBps(sum) == ((sum.m - Pow10(sum.s)) * 10000) \div Pow10(sum.s)

\* Violation v is the exclusivity violation of the sibling set: its basis
\* points are (sum - 1) * 10000 and its two markets are two different
\* siblings, the first priced no lower than the second, the second no lower
\* than any other.
IsExclusivityOf(v, siblings) ==
    /\ v.violation_type = "ExclusivityViolation"
    /\ v.arbitrage_edge_bps = ExcessBps(SumOver(siblings))
    /\ \E a, b \in siblings :
          /\ a # b
          /\ v.parent_market = graph.nodes[a].market_id
          /\ v.child_market = graph.nodes[b].market_id
          /\ ~DecLt(PriceAt(a), PriceAt(b))
          /\ \A c \in siblings \ {a, b} : ~DecGt(PriceAt(c), PriceAt(b))

\* The sibling sets that call for a violation: at least two children, all
\* priced, summing above 1.
Overpriced ==
    {n \in DOMAIN graph.nodes :
        /\ Cardinality(ChildSet(n)) >= 2
        /\ AllPriced(ChildSet(n))
        /\ DecGt(SumOver(ChildSet(n)), Dec(1, 0))}

\* No relationship was added twice.
NoParallelEdges ==
    \A d, e \in DOMAIN graph.edges :
        (graph.edges[d].parent = graph.edges[e].parent
         /\ graph.edges[d].child = graph.edges[e].child) => d = e

\* C13 (as claimed): in a graph where no relationship was added twice, a
\* scan lists an exclusivity violation only for a node
\* with at least two children, all of them priced, whose prices sum above 1,
\* with edge_bps = (sum - 1) * 10000 and the two highest-priced children as
\* its markets; and it lists that violation for every such node whose
\* edge_bps reaches min_edge_bps (X 0.40, Y 0.40, Z 0.30: edge_bps 1000, legs
\* X and Y).  A sibling set with an unpriced child gives none.
C13_ExclusivitySum ==
    (IsScan /\ ~call.result.panics /\ NoParallelEdges) =>
        /\ \A i \in DOMAIN call.result.value :
              call.result.value[i].violation_type = "ExclusivityViolation"
              => \E n \in Overpriced :
                    IsExclusivityOf(call.result.value[i], ChildSet(n))
        /\ \A n \in Overpriced :
              ExcessBps(SumOver(ChildSet(n))) >= min_edge_bps
              => \E i \in DOMAIN call.result.value :
                    IsExclusivityOf(call.result.value[i], ChildSet(n))

\* C14 (as claimed): scan_violations returns normally, without a panic, for
\* every graph and every assignment of prices in [0, 1], a parent priced 0
\* included.
C14_ScanNeverPanics ==
    IsScan => ~call.result.panics

\* ------------------------------------------------------------------------
\* Claims on the NegRisk miner (negrisk 2.rs)
\* ------------------------------------------------------------------------

IsCheckMarket == call.op = "check_market"

\* The outcomes of the checked market and the best bid / ask of each.
OutcomesOf == DOMAIN call.market.token_ids
BidOf(i) ==
    LET t == call.market.token_ids[i]
    IN  IF t \in DOMAIN books THEN BestPrice(books[t].bids, TRUE) ELSE None
AskOf(i) ==
    LET t == call.market.token_ids[i]
    IN  IF t \in DOMAIN books THEN BestPrice(books[t].asks, FALSE) ELSE None
AllBids == \A i \in OutcomesOf : BidOf(i) # None
AllAsks == \A i \in OutcomesOf : AskOf(i) # None

\* Exact arithmetic on prices that are whole cents and fees that are whole
\* percents: a price in cents, the sum of the best bids and of the best asks
\* of the first n outcomes in cents, the fee in percent.
Cents(d) == d.m * Pow10(2 - d.s)

RECURSIVE BidCents(_)
BidCents(n) == IF n = 0 THEN 0 ELSE BidCents(n - 1) + Cents(Unwrap(BidOf(n)))

RECURSIVE AskCents(_)
AskCents(n) == IF n = 0 THEN 0 ELSE AskCents(n - 1) + Cents(Unwrap(AskOf(n)))

SumBids == BidCents(Len(call.market.token_ids))
SumAsks == AskCents(Len(call.market.token_ids))
FeePercent == config.fee_bps \div 100

\* sum_bids > 1 + f, and floor((sum_bids * (1 - f) - 1) * 10000).
MintTriggers == AllBids /\ SumBids > 100 + FeePercent
MintBps == SumBids * (100 - FeePercent) - 10000

\* sum_asks < 1 - f, and floor((1 - cost) / cost * 10000) for
\* cost = sum_asks * (1 + f) > 0.
MergeTriggers == AllAsks /\ SumAsks < 100 - FeePercent
MergeCost == SumAsks * (100 + FeePercent)
MergeBps == ((10000 - MergeCost) * 10000) \div MergeCost

\* The opportunity has one leg for each outcome of the market, on the given
\* side, at the outcome's best price.
LegsAre(arb, side, BestOf(_)) ==
    /\ DOMAIN arb.legs = OutcomesOf
    /\ \A i \in OutcomesOf :
          /\ arb.legs[i].token_id = call.market.token_ids[i]
          /\ arb.legs[i].side = side
          /\ DecEq(arb.legs[i].price, Unwrap(BestOf(i)))

Checked == IsCheckMarket /\ ~call.result.panics
Found == call.result.value # None
Opportunity == Unwrap(call.result.value)

\* C15 (as claimed): check_market finds a MintAndSell opportunity only when
\* every outcome has a best bid and the bids sum above 1 + f, it finds one
\* whenever they do and the profit reaches min_arb_bps, and the opportunity
\* has expected_profit_bps = floor((sum_bids * (1 - f) - 1) * 10000) and one
\* SELL leg an outcome at its best bid (bids 0.55 and 0.55, no fee, minimum
\* 30: profit 1000, two SELL legs at 0.55).
C15_MintAndSell ==
    Checked =>
        /\ (Found /\ Opportunity.arb_type = "MintAndSell") => MintTriggers
        /\ (MintTriggers /\ MintBps >= config.min_arb_bps) =>
              /\ Found
              /\ Opportunity.arb_type = "MintAndSell"
              /\ Opportunity.expected_profit_bps = MintBps
              /\ LegsAre(Opportunity, "SELL", BidOf)

\* C16 (as claimed): check_market finds a BuyAndMerge opportunity only when
\* every outcome has a best ask and the asks sum below 1 - f, it finds one
\* whenever they do, the profit reaches min_arb_bps and no mint-and-sell is
\* taken first, and the opportunity has expected_profit_bps =
\* floor((1 - cost) / cost * 10000) for cost = sum_asks * (1 + f) and one BUY
\* leg an outcome at its best ask.
C16_BuyAndMerge ==
    Checked =>
        /\ (Found /\ Opportunity.arb_type = "BuyAndMerge") => MergeTriggers
        /\ (/\ MergeTriggers
            /\ MergeCost > 0
            /\ MergeBps >= config.min_arb_bps
            /\ ~MintTriggers) =>
              /\ Found
              /\ Opportunity.arb_type = "BuyAndMerge"
              /\ Opportunity.expected_profit_bps = MergeBps
              /\ LegsAre(Opportunity, "BUY", AskOf)

\* C17 (as claimed): check_market finds nothing for a market in which some
\* outcome has no best bid or no best ask (no book, or an empty side).
C17_SkipsIncompleteMarket ==
    (Checked /\ (~AllBids \/ ~AllAsks)) => ~Found

\* The two candidates of the checked market.
MintCandidate ==
    CheckMintAndSell(config, call.market.condition_id,
                     BestPrices(books, call.market, TRUE))
MergeCandidate ==
    CheckBuyAndMerge(config, call.market.condition_id,
                     BestPrices(books, call.market, FALSE))
BothQualify ==
    /\ MintCandidate # None
    /\ Unwrap(MintCandidate).expected_profit_bps >= config.min_arb_bps
    /\ ~MergeCandidate.panics
    /\ MergeCandidate.value # None
    /\ Unwrap(MergeCandidate.value).expected_profit_bps >= config.min_arb_bps

\* C18: check_market returns an opportunity only if its expected_profit_bps
\* is at least min_arb_bps; when the mint-and-sell and the buy-and-merge
\* candidate both reach the minimum it returns the mint-and-sell one; and
\* when the bids do not sum above 1 + f and the asks do not sum below 1 - f
\* (bids 0.49 / 0.49, asks 0.51 / 0.51, no fee) it returns none.
C18_MinimumAndPreference ==
    Checked =>
        /\ Found => Opportunity.expected_profit_bps >= config.min_arb_bps
        /\ BothQualify =>
              /\ Found
              /\ Opportunity = Unwrap(MintCandidate)
              /\ Opportunity.arb_type = "MintAndSell"
        /\ (~MintTriggers /\ ~MergeTriggers) => ~Found

C18_Witness ==
    /\ Checked
    /\ BothQualify
    /\ Len(call.market.token_ids) = 2
    /\ Opportunity.arb_type = "MintAndSell"
    /\ Unwrap(MergeCandidate.value).expected_profit_bps
          > Opportunity.expected_profit_bps

\* The size the book shows for a leg: the size at the leg's price on the
\* asks for a BUY leg, on the bids for a SELL leg; 0 with no book or no
\* level.
Displayed(leg) ==
    IF leg.token_id \notin DOMAIN books THEN Dec(0, 0)
    ELSE SizeAtPrice(IF leg.side = "BUY" THEN books[leg.token_id].asks
                     ELSE books[leg.token_id].bids, leg.price)

\* C19 (as claimed): calculate_position_size of an opportunity with legs is
\* the least of max_position_usd and the sizes displayed for its legs; a leg
\* with no book or no level at its price makes it 0.
C19_PositionSize ==
    (call.op = "calculate_position_size" /\ call.arb.legs # <<>>) =>
        /\ ~DecGt(call.result, config.max_position_usd)
        /\ \A i \in DOMAIN call.arb.legs :
              ~DecGt(call.result, Displayed(call.arb.legs[i]))
        /\ \/ DecEq(call.result, config.max_position_usd)
           \/ \E i \in DOMAIN call.arb.legs :
                 DecEq(call.result, Displayed(call.arb.legs[i]))

\* ------------------------------------------------------------------------
\* Claims on the f64 NegRisk scan (negrisk.rs)
\* ------------------------------------------------------------------------

IsNegRiskScan == call.op \in {"scan", "scan_binary"}

\* The sum of a list of prices, the fee and the minimum in exact units: cents
\* for prices and fee, basis points for the minimum.
RECURSIVE ListCents(_)
ListCents(xs) == IF xs = <<>> THEN 0 ELSE Cents(Head(xs)) + ListCents(Tail(xs))

\* The type the claim gives the market of the call, and its gross profit in
\* cents.
ClaimedType ==
    IF ListCents(call.bids) > 100 + Cents(config.fee) THEN "MintAndSell"
    ELSE IF ListCents(call.asks) < 100 - Cents(config.fee) THEN "BuyAndMerge"
    ELSE "None"
ClaimedGross ==
    IF ClaimedType = "MintAndSell" THEN ListCents(call.bids) - 100
    ELSE 100 - ListCents(call.asks)

DefaultScanOf(bids, asks) ==
    /\ IsNegRiskScan
    /\ config = FloatDefaultConfig
    /\ call.bids = bids
    /\ call.asks = asks

\* C20: NegRisk.scan gives a market the type MintAndSell when its bids sum
\* above 1 + fee, otherwise BuyAndMerge when its asks sum below 1 - fee,
\* otherwise None; is_profitable holds exactly when the type is not None and
\* profit_bps = (gross profit - fee) * 10000 is at least min_profit_bps.
\* With the default configuration: bids 0.55 / 0.55 are a profitable
\* MintAndSell, asks 0.45 / 0.45 with bids 0.40 / 0.40 a profitable
\* BuyAndMerge, bids 0.49 / 0.49 with asks 0.51 / 0.51 None, not profitable.
C20_FloatScan ==
    IsNegRiskScan =>
        /\ call.result.opportunity_type = ClaimedType
        /\ call.result.is_profitable
              <=> (/\ ClaimedType # "None"
                   /\ (ClaimedGross - Cents(config.fee)) * 100
                         >= config.min_profit_bps.m)
        /\ ClaimedType # "None" =>
              DecEq(call.result.profit_bps,
                    Dec((ClaimedGross - Cents(config.fee)) * 100, 0))
        /\ \A asks \in PriceLists(ScanAsks) :
              DefaultScanOf(<<Dec(55, 2), Dec(55, 2)>>, asks) =>
                  /\ call.result.opportunity_type = "MintAndSell"
                  /\ call.result.is_profitable
        /\ DefaultScanOf(<<Dec(40, 2), Dec(40, 2)>>, <<Dec(45, 2), Dec(45, 2)>>) =>
              /\ call.result.opportunity_type = "BuyAndMerge"
              /\ call.result.is_profitable
        /\ DefaultScanOf(<<Dec(49, 2), Dec(49, 2)>>, <<Dec(51, 2), Dec(51, 2)>>) =>
              /\ call.result.opportunity_type = "None"
              /\ ~call.result.is_profitable

C20_Witness ==
    /\ DefaultScanOf(<<Dec(55, 2), Dec(55, 2)>>, <<Dec(45, 2), Dec(45, 2)>>)
    /\ call.result.opportunity_type = "MintAndSell"
    /\ call.result.is_profitable
    /\ DecEq(call.result.profit_bps, Dec(800, 0))

\* ------------------------------------------------------------------------
\* Claims about Vulture (SpecVulture).  The claims are stated on integers:
\* a price in thousandths, an edge fraction in hundredths.
\* ------------------------------------------------------------------------

IsVultureScan == call.op = "vulture_scan"

Thousandths(d) == d.m * Pow10(3 - d.s)
Hundredths(d) == d.m * Pow10(2 - d.s)

\* min_spread_bps <= (ask - bid) / mid * 10000 <= max_spread_bps with
\* mid = (bid + ask) / 2, cleared of its division.
SpreadWithin(cfg, bid, ask) ==
    /\ cfg.min_spread_bps.m * (bid + ask) <= 20000 * (ask - bid)
    /\ 20000 * (ask - bid) <= cfg.max_spread_bps.m * (bid + ask)

Qualifies(cfg, best_bid, best_ask) ==
    LET bid == Thousandths(best_bid)
        ask == Thousandths(best_ask)
    IN  /\ bid > 0
        /\ ask > 0
        /\ bid < ask
        /\ bid + ask >= 2 * Thousandths(cfg.min_mid_price)
        /\ SpreadWithin(cfg, bid, ask)

ScanOf(best_bid, best_ask) ==
    /\ IsVultureScan
    /\ config = VultureDefaultConfig
    /\ DecEq(call.best_bid, best_bid)
    /\ DecEq(call.best_ask, best_ask)

\* C22: with the default configuration, scan of 0.45 / 0.55 returns an
\* opportunity to BUY at 0.475 with mid 0.50, and scan of 0.49 / 0.51
\* returns no opportunity.
C22_DefaultExamples ==
    /\ ScanOf(Dec(45, 2), Dec(55, 2)) =>
          /\ call.result # None
          /\ Unwrap(call.result).recommended_side = "BUY"
          /\ DecEq(Unwrap(call.result).recommended_price, Dec(475, 3))
          /\ DecEq(Unwrap(call.result).mid_price, Dec(50, 2))
    /\ ScanOf(Dec(49, 2), Dec(51, 2)) => call.result = None

IsCreated == call.op = "create_limit_order" /\ call.result # None

\* floor(d * 1e6) for a decimal d >= 0
FloorBaseUnits(d) == (d.m * 1000000) \div Pow10(d.s)

\* floor(price * size * 1e6)
FloorNotional(price, size) ==
    (price.m * size.m * 1000000) \div Pow10(price.s + size.s)

\* C25: a BUY of size shares at price has maker_amount =
\* floor(price * size * 1e6) and taker_amount = floor(size * 1e6), a SELL
\* has the two swapped, for every price and size, a product with trailing
\* decimal digits included.
C25_FloorAmounts ==
    IsCreated =>
        LET order == Unwrap(call.result).order
            usdc == FloorNotional(call.price, call.size)
            shares == FloorBaseUnits(call.size)
        IN  IF call.side = "Buy"
            THEN order.maker_amount = usdc /\ order.taker_amount = shares
            ELSE order.maker_amount = shares /\ order.taker_amount = usdc

\* The i-th 32-byte word of data.
Word(data, i) == SubSeq(data, 32 * (i - 1) + 1, 32 * i)

IsWords(data, n) == Len(data) = 32 * n

\* A word that holds an address in its low 20 bytes.
IsAddressWord(word, addr) ==
    /\ Len(word) = 32
    /\ \A i \in 1..12 : word[i] = Literal(0)
    /\ SubSeq(word, 13, 32) = AddressBytes(addr)

\* A word that holds a number below 2^31, big-endian.
IsNumberWord(word, value) ==
    /\ Len(word) = 32
    /\ \A i \in 1..28 : word[i] = Literal(0)
    /\ \A i \in 29..32 :
          word[i] = Literal((value \div (IF i = 29 THEN 16777216
                                         ELSE IF i = 30 THEN 65536
                                         ELSE IF i = 31 THEN 256
                                         ELSE 1)) % 256)

IsHashWord(word) ==
    /\ Len(word) = 32
    /\ \A i \in 1..32 : word[i] = [source |-> word[1].source, value |-> i]

\* C26: every field that enters a hash preimage is one 32-byte big-endian
\* word: the domain preimage is five words (type hash, name hash, version
\* hash, chainId, the verifying contract in the low 20 bytes of a word) and
\* the order preimage is thirteen words (type hash, then the twelve fields
\* in declaration order).
C26_PreimageWords ==
    IsCreated =>
        LET signature == Unwrap(call.result).signature
            order == Unwrap(call.result).order
            domain == EIP712DomainNew(signer.is_negrisk)
            message == signature.message_hash.keccak256
            domain_data == message.domain_separator.keccak256
            order_data == message.struct_hash.keccak256
        IN  /\ IsWords(domain_data, 5)
            /\ \A i \in 1..3 : IsHashWord(Word(domain_data, i))
            /\ IsNumberWord(Word(domain_data, 4), CHAIN_ID)
            /\ IsAddressWord(Word(domain_data, 5), domain.verifying_contract)
            /\ IsWords(order_data, 13)
            /\ IsHashWord(Word(order_data, 1))
            /\ IsNumberWord(Word(order_data, 2), order.salt)
            /\ IsAddressWord(Word(order_data, 3), order.maker)
            /\ IsAddressWord(Word(order_data, 4), order.signer)
            /\ IsAddressWord(Word(order_data, 5), order.taker)
            /\ IsNumberWord(Word(order_data, 6), order.token_id)
            /\ IsNumberWord(Word(order_data, 7), order.maker_amount)
            /\ IsNumberWord(Word(order_data, 8), order.taker_amount)
            /\ IsNumberWord(Word(order_data, 9), order.expiration)
            /\ IsNumberWord(Word(order_data, 10), order.nonce)
            /\ IsNumberWord(Word(order_data, 11), order.fee_rate_bps)
            /\ IsNumberWord(Word(order_data, 12), SideAsU8(order.side))
            /\ IsNumberWord(Word(order_data, 13), order.signature_type)

\* ------------------------------------------------------------------------
\* Claims about the shared signer (SpecNonce).
\* ------------------------------------------------------------------------

IsEvent(i, kind, op) == issued[i].kind = kind /\ issued[i].op = op
IsNonce(i) == issued[i].kind = "nonce"

\* No set_nonce happened from the i-th event to the j-th.
NoSetWithin(i, j) == \A k \in i..j : issued[k].kind # "set"

\* The nonces handed out before the i-th event.
NoncesBefore(i) == {k \in 1..(i - 1) : IsNonce(k)}

\* The nonce handed to the call numbered id, if it has one yet.
NonceEventsOf(id) == {k \in DOMAIN issued : IsNonce(k) /\ issued[k].id = id}

\* C24: when no set_nonce intervenes, the nonces handed to concurrent
\* create_limit_order and cancel_all_orders calls are pairwise different
\* and strictly increasing in the order they are handed out, starting from
\* the initial value; and once cancel_all_orders has returned, an order
\* created afterwards has a nonce above that of every order created before.
C24_MonotonicNonce ==
    /\ \A j \in DOMAIN issued :
          IsNonce(j) =>
              \A i \in 1..(j - 1) :
                  (IsNonce(i) /\ NoSetWithin(i, j))
                      => issued[i].nonce < issued[j].nonce
    /\ \A j \in DOMAIN issued :
          (IsNonce(j) /\ NoSetWithin(1, j))
              => issued[j].nonce = Cardinality(NoncesBefore(j))
    /\ NoSetWithin(1, Len(issued)) =>
          \A j \in DOMAIN issued :
              IsEvent(j, "return", "cancel_all_orders") =>
                  \A i \in 1..(j - 1) :
                      IsEvent(i, "return", "create_limit_order") =>
                          \A k \in (j + 1)..Len(issued) :
                              IsEvent(k, "call", "create_limit_order") =>
                                  \A n \in NonceEventsOf(issued[k].id) :
                                      \A m \in NonceEventsOf(issued[i].id) :
                                          issued[n].nonce > issued[m].nonce

\* Two calls that held the signer at the same time took different nonces,
\* a cancel_all_orders returned, and an order created after it took its
\* nonce.
C24_Witness ==
    \E i, j, k \in DOMAIN issued :
        /\ i < j /\ j < k
        /\ IsEvent(i, "return", "create_limit_order")
        /\ NonceEventsOf(issued[i].id) # {}
        /\ IsEvent(j, "return", "cancel_all_orders")
        /\ IsEvent(k, "call", "create_limit_order")
        /\ NonceEventsOf(issued[k].id) # {}
        /\ NoSetWithin(1, Len(issued))
        /\ \E c \in DOMAIN issued :
              /\ IsEvent(c, "call", "cancel_all_orders")
              /\ c < i
              /\ issued[c].id = issued[j].id

\* ------------------------------------------------------------------------
\* Claims about the books of different tokens (SpecMgr).
\* ------------------------------------------------------------------------

IsSnapshot(input) == "bids" \in DOMAIN input

\* The manager's map after load_snapshot or apply_delta of the input, and
\* what the call hands back.
OutcomeOf(map, input) ==
    IF IsSnapshot(input)
    THEN [books |-> BooksInsert(map, input.token_id, FromSnapshot(input)),
          result |-> "Ok"]
    ELSE IF input.token_id \notin DOMAIN map
    THEN [books |-> map, result |-> "TokenNotFound"]
    ELSE LET r == BookApplyDelta(map[input.token_id], input)
         IN  [books |-> BooksInsert(map, input.token_id, r.book),
              result |-> r.result]

\* The token's book in the map, None when it has none.
BookOf(map, token_id) ==
    IF token_id \in DOMAIN map THEN Some(map[token_id]) ELSE None

\* Operations on a token that succeed or fail with the book it has: two
\* snapshots and two deltas.
InputsFor(token_id) ==
    {[token_id |-> token_id, bids |-> <<Level(Dec(20, 2), Dec(5, 0))>>, asks |-> <<>>,
      timestamp |-> 0, sequence |-> q] : q \in {0, 1}}
    \cup
    {[token_id |-> token_id, bid_updates |-> <<>>,
      ask_updates |-> <<Level(Dec(40, 2), Dec(5, 0))>>,
      timestamp |-> 1, sequence |-> q] : q \in {1, 2}}

CallToken ==
    IF call.op = "load_snapshot" THEN call.snapshot.token_id ELSE call.token_id

\* C27: load_snapshot or apply_delta for a token, whether it succeeds or
\* fails, leaves the book of every other token as it was, and a delta for
\* a token gives the same result and the same book whether an operation on
\* another token runs before it or after it.
C27_TokensIndependent ==
    /\ call.op \in {"load_snapshot", "apply_delta"} =>
          \A other \in Tokens \ {CallToken} :
              BookOf(books, other) = BookOf(call.before, other)
    /\ call.op = "apply_delta" =>
          \A other \in Tokens \ {call.token_id} :
              \A input \in InputsFor(other) :
                  LET first == OutcomeOf(OutcomeOf(call.before, input).books, call.delta)
                      last == OutcomeOf(books, input)
                  IN  /\ first.result = call.result
                      /\ BookOf(first.books, call.token_id) = BookOf(books, call.token_id)
                      /\ first.books = last.books

\* A delta for one token has failed while the other token holds a book with
\* a level and a sequence number.
C27_Witness ==
    /\ call.op = "apply_delta"
    /\ call.result = "SequenceGap"
    /\ \E other \in Tokens \ {call.token_id} :
          /\ other \in DOMAIN books
          /\ books[other].sequence_number > 0
          /\ books[other].last_update_ts > 0
          /\ DOMAIN books[other].bids # {}

\* ------------------------------------------------------------------------
\* Claims about the order of the scan (SpecMixed).
\* ------------------------------------------------------------------------

\* The violation check_edge finds on the e-th edge, None when it finds none.
EdgeViolation(e) ==
    CheckEdge(graph, graph.edges[e].parent, graph.edges[e].child, e).value

\* The violation check_exclusivity finds under the n-th node.
NodeViolation(n) ==
    IF Len(Children(graph, n)) > 1
    THEN CheckExclusivity(graph, Children(graph, n)) ELSE None

Passes(v) == v # None /\ Unwrap(v).arbitrage_edge_bps >= min_edge_bps

EdgeHits == {e \in DOMAIN graph.edges : Passes(EdgeViolation(e))}
NodeHits == {n \in DOMAIN graph.nodes : Passes(NodeViolation(n))}

\* The i-th smallest member of a set of numbers.
Ranked(S, i) == CHOOSE x \in S : Cardinality({y \in S : y < x}) = i - 1

\* C28: scan_violations returns the edge violations in the order the edges
\* were inserted, then the exclusivity violations in the order the nodes
\* were inserted, each with edge_bps >= min_edge_bps, and a second scan of
\* the unchanged graph returns the same list.
C28_ScanOrder ==
    (IsScan /\ ~call.result.panics) =>
        LET list == call.result.value
            edges == Cardinality(EdgeHits)
        IN  /\ Len(list) = edges + Cardinality(NodeHits)
            /\ \A i \in 1..edges :
                  list[i] = Unwrap(EdgeViolation(Ranked(EdgeHits, i)))
            /\ \A i \in (edges + 1)..Len(list) :
                  list[i] = Unwrap(NodeViolation(Ranked(NodeHits, i - edges)))
            /\ \A i \in DOMAIN list : list[i].arbitrage_edge_bps >= min_edge_bps
            /\ ScanViolations(graph, min_edge_bps) = call.result

\* A scan that returned two edge violations and two exclusivity violations.
C28_Witness ==
    /\ IsScan
    /\ ~call.result.panics
    /\ Len(call.result.value) = 4
    /\ call.result.value[1].violation_type # "ExclusivityViolation"
    /\ call.result.value[2].violation_type # "ExclusivityViolation"
    /\ call.result.value[1] # call.result.value[2]
    /\ call.result.value[3].violation_type = "ExclusivityViolation"
    /\ call.result.value[4].violation_type = "ExclusivityViolation"
    /\ call.result.value[3] # call.result.value[4]

\* ------------------------------------------------------------------------
\* Claims on two deltas racing for one sequence number
\* ------------------------------------------------------------------------

\* Thread t has run apply_delta on a book to its end and not yet returned.
AppliedDelta(t) ==
    /\ threads[t].pc = "done"
    /\ threads[t].op = "apply_delta"
    /\ threads[t].arc # 0

\* The sequence number of the book as the apply_delta of t found it.
CurrentOf(t) == threads[t].saw[1].sequence_number

\* Threads t and u ran apply_delta on the same book, each with a delta whose
\* sequence is the one after the sequence the book had when the call began.
Raced(t, u) ==
    /\ t # u
    /\ AppliedDelta(t)
    /\ AppliedDelta(u)
    /\ threads[t].arc = threads[u].arc
    /\ Unwrap(threads[t].arg).sequence = CurrentOf(t) + 1
    /\ Unwrap(threads[u].arg).sequence = CurrentOf(u) + 1
    /\ CurrentOf(t) = CurrentOf(u)

\* The call of `winner` returned Ok, the call of `loser` StaleUpdate, and the
\* book is the one `winner` found with the delta of `winner` applied.
WonAlone(winner, loser) ==
    LET delta == Unwrap(threads[winner].arg)
        before == threads[winner].saw[1]
        book == heap[threads[winner].arc].book
    IN  /\ threads[winner].result = <<"Ok">>
        /\ threads[loser].result = <<"StaleUpdate">>
        /\ book.bids = ApplyUpdates(before.bids, delta.bid_updates)
        /\ book.asks = ApplyUpdates(before.asks, delta.ask_updates)
        /\ book.sequence_number = before.sequence_number + 1

\* C29: when two threads have run apply_delta on the same book with deltas
\* of the same sequence number current + 1, one call returned Ok and the
\* other StaleUpdate, and the book holds the sides of the successful delta
\* alone with sequence current + 1, whatever the interleaving.
C29_OneWinner ==
    \A t, u \in Threads :
        Raced(t, u) => WonAlone(t, u) \/ WonAlone(u, t)

\* C29 witness: the two calls were made with deltas that change the sides
\* differently, the second while the first was between its write of the bids
\* and its write of the asks, and both have run to their end.
C29_Witness ==
    \E t, u \in Threads :
        /\ Raced(t, u)
        /\ Unwrap(threads[t].arg).bid_updates # Unwrap(threads[u].arg).bid_updates
        /\ threads[t].result = <<"Ok">>
        /\ threads[u].saw[1].bids # threads[t].saw[1].bids
        /\ threads[u].saw[1].asks = threads[t].saw[1].asks

\* ------------------------------------------------------------------------
\* Claims on the locks of the manager
\* ------------------------------------------------------------------------

\* Thread t is inside a call: it has begun and has not reached its end.
Busy(t) == threads[t].pc \notin {"idle", "done"}

\* C30: concurrent load_snapshot, apply_delta, get, find_wide_spread_markets
\* and book reads never deadlock: every call that has begun reaches its end,
\* given that a thread that can step does step.
C30_NoDeadlock ==
    \A t \in Threads : Busy(t) ~> (threads[t].pc = "done")

\* C30 witness: a thread waits to write the bids of a book of which the
\* other thread, inside find_wide_spread_markets, holds the read guard.
C30_Witness ==
    \E t, u \in Threads :
        /\ threads[t].pc = "bids"
        /\ threads[u].op = "find_wide_spread_markets"
        /\ threads[u].pc = "read_asks"
        /\ threads[u].arc = threads[t].arc
        /\ u \in heap[threads[t].arc].locks.bids.readers
        /\ ~CanWrite(heap[threads[t].arc].locks.bids)

=============================================================================
